---- MODULE Spec2Model ----
(***************************************************************************)
(* Verification model of the comms protocol layer stack                    *)
(* (comms/protocol/ProtocolLayerBase.h, comms/protocol/SyncPrefixLayer.h)  *)
(* and of the field objects comms/field/Bitfield.h and                     *)
(* comms/field/EnumValue.h.                                                *)
(*                                                                         *)
(* A stack is a sequence of middle layers, outermost first, closed by the  *)
(* payload layer (MsgDataLayer).  Every stack operation is one action; the *)
(* recursion through the layers is the recursion of the operators below.   *)
(***************************************************************************)
EXTENDS Integers, Sequences, FiniteSets, TLC

VARIABLES
    stack,      \* the layer descriptors of the stack under test, outermost first
    buf,        \* the byte buffer the operations work on
    sent,       \* <<m>> when buf is the frame a successful write of m produced, else <<>>
    op,         \* the last operation invoked on the stack
    args,       \* the arguments of that operation, as they were before the call
    res,        \* what the operation returned and left behind
    fld,        \* the type of the field object under test: its members and options
    fval,       \* the value the field object holds
    fbuf,       \* the bytes the field object was last serialised to
    fsent,      \* <<v>> when fbuf is what write produced from the value v, else <<>>
    fop,        \* the last operation invoked on the field object
    fres,       \* what that operation returned
    iopts,      \* the options a message interface is built from, as written
    ibases,     \* the base classes the builder composed, innermost first
    imsg,       \* the concrete message behind the interface
    iop,        \* the last operation invoked through the interface
    ires,       \* what that operation returned
    m_data,     \* Protocol::m_data: the bytes received and not yet erased
    readIterBeg, \* readImpl: the offset in m_data the next frame is read at
    allInfos,   \* readImpl: the message infos the call has produced
    ppc,        \* readImpl: "idle" between calls, "loop", "return"
    piter,      \* what the last iteration of the outer loop did
    pcall,      \* the current or last call: its number, the bytes it received
                \* (incoming), m_data as the loop sees it (full), the bytes no
                \* info had consumed before the call (carried) and after it (rest)
    createInfos, \* createAllMessagesImpl: the message infos produced so far
    cidx,       \* createAllMessagesImpl: the loop index idx
    cpc,        \* createAllMessagesImpl: "idle", "loop", "done"
    clast,      \* what the last iteration of the loop of createAllMessagesImpl did
    mgr,        \* the data members of GuiAppMgr
    msgMgr,     \* MsgMgr: the messages it holds, in the order they were added
    ui,         \* what the widgets show, as the signals of GuiAppMgr left it
    gev         \* the last event GuiAppMgr handled

stackVars == <<stack, buf, sent, op, args, res>>

fieldVars == <<fld, fval, fbuf, fsent, fop, fres>>

ifaceVars == <<iopts, ibases, imsg, iop, ires>>

protVars == <<m_data, readIterBeg, allInfos, ppc, piter, pcall>>

createVars == <<createInfos, cidx, cpc, clast>>

guiVars == <<mgr, msgMgr, ui, gev>>

vars == <<stackVars, fieldVars, ifaceVars, protVars, createVars, guiVars>>

----------------------------------------------------------------------------
(* Bounds of the model *)

\* longest byte sequence handed to the stack as received data
MaxRecv == 3
\* longest trailing byte list carried by a message
MaxData == 2

----------------------------------------------------------------------------
(* comms::ErrorStatus *)

Success         == "Success"
UpdateRequired  == "UpdateRequired"
NotEnoughData   == "NotEnoughData"
ProtocolError   == "ProtocolError"
InvalidMsgId    == "InvalidMsgId"
InvalidMsgData  == "InvalidMsgData"
MsgAllocFailure == "MsgAllocFailure"
BufferOverflow  == "BufferOverflow"
NotSupported    == "NotSupported"

ErrorStatus ==
    {Success, UpdateRequired, NotEnoughData, ProtocolError, InvalidMsgId,
     InvalidMsgData, MsgAllocFailure, BufferOverflow, NotSupported}

\* std::size_t* missingSize = nullptr
NullPtr == -1

\* std::size_t arithmetic wraps; the width is narrowed to 16 bits
SizeTMod == 2 ^ 16

SizeTSub(a, b) == (a - b + SizeTMod) % SizeTMod

Max(a, b) == IF a < b THEN b ELSE a

----------------------------------------------------------------------------
(* Field codecs: integer fields, big endian, fixed or variable length *)

\* a fixed length field of len bytes
FixedField(len, dflt) == [var |-> FALSE, len |-> len, dflt |-> dflt]
\* a base-128 variable length field of one or two bytes
VarField(dflt) == [var |-> TRUE, len |-> 1, dflt |-> dflt]

FieldMinLength(f) == f.len
FieldMaxLength(f) == IF f.var THEN 2 ELSE f.len

\* field.length(): the serialised length of the value the field holds
FieldLength(f, v) == IF f.var THEN (IF v < 128 THEN 1 ELSE 2) ELSE f.len

\* big endian serialisation of v into len bytes, truncated to the width
EncodeBE(v, len) == [i \in 1..len |-> (v \div (256 ^ (len - i))) % 256]

RECURSIVE DecodeBE(_)
DecodeBE(bytes) ==
    IF bytes = <<>> THEN 0
    ELSE DecodeBE(SubSeq(bytes, 1, Len(bytes) - 1)) * 256 + bytes[Len(bytes)]

\* the bytes field.write() emits for value v
FieldBytes(f, v) ==
    IF f.var
    THEN IF v < 128 THEN <<v>> ELSE <<128 + ((v \div 128) % 128), v % 128>>
    ELSE EncodeBE(v, f.len)

\* field.read(iter, size) on data at offset iter: the status, the value read and
\* the bytes consumed; a failed read consumes nothing and keeps the old value
FieldRead(f, old, data, iter, size) ==
    LET fail(e) == [es |-> e, value |-> old, used |-> 0]
    IN IF f.var
       THEN IF size < 1 THEN fail(NotEnoughData)
            ELSE IF data[iter + 1] < 128
                 THEN [es |-> Success, value |-> data[iter + 1], used |-> 1]
            ELSE IF size < 2 THEN fail(NotEnoughData)
            ELSE IF data[iter + 2] >= 128 THEN fail(ProtocolError)
            ELSE [es |-> Success,
                  value |-> (data[iter + 1] % 128) * 128 + data[iter + 2],
                  used |-> 2]
       ELSE IF size < f.len THEN fail(NotEnoughData)
            ELSE [es |-> Success,
                  value |-> DecodeBE(SubSeq(data, iter + 1, iter + f.len)),
                  used |-> f.len]

----------------------------------------------------------------------------
(* The message dialect and the message codec *)

\* Heartbeat{} has id 0; Ping{seq: u16} has id 1; Data{bytes: trailing list
\* of u8} has id 2; Choice{variant selected by a one byte key} has id 3
KnownIds == {0, 1, 2, 3}

\* the keys the variant of Choice recognises
VariantKeys == {1}

\* the byte lengths of the fixed fields of a message kind, whether a trailing
\* list that consumes the remaining size follows them, and whether the body is
\* a variant
MsgKind(id) ==
    IF id = 0 THEN [fixed |-> <<>>, trailing |-> FALSE, variant |-> FALSE]
    ELSE IF id = 1 THEN [fixed |-> <<2>>, trailing |-> FALSE, variant |-> FALSE]
    ELSE IF id = 3 THEN [fixed |-> <<>>, trailing |-> FALSE, variant |-> TRUE]
    ELSE [fixed |-> <<>>, trailing |-> TRUE, variant |-> FALSE]

RECURSIVE SumSeq(_)
SumSeq(s) == IF s = <<>> THEN 0 ELSE s[1] + SumSeq(Tail(s))

\* a freshly allocated (default constructed) message of the kind
NewMsg(id) == [id |-> id, fields |-> [i \in 1..Len(MsgKind(id).fixed) |-> 0]]

\* msg.length()
MsgLength(m) ==
    SumSeq(MsgKind(m.id).fixed) + (Len(m.fields) - Len(MsgKind(m.id).fixed))

RECURSIVE MsgBytesFrom(_, _)
MsgBytesFrom(m, i) ==
    IF i > Len(m.fields) THEN <<>>
    ELSE (IF i <= Len(MsgKind(m.id).fixed)
          THEN EncodeBE(m.fields[i], MsgKind(m.id).fixed[i])
          ELSE EncodeBE(m.fields[i], 1))
         \o MsgBytesFrom(m, i + 1)

\* the bytes msg.write() emits: the fields in declared order
MsgBytes(m) == MsgBytesFrom(m, 1)

RECURSIVE MsgFixedFrom(_, _, _, _)
MsgFixedFrom(lens, data, iter, i) ==
    IF i > Len(lens) THEN <<>>
    ELSE <<DecodeBE(SubSeq(data, iter + 1, iter + lens[i]))>>
         \o MsgFixedFrom(lens, data, iter + lens[i], i + 1)

\* msg.read(iter, size): the fixed fields in declared order, then the trailing
\* list until the size is exhausted; a variant reads its key and fails with
\* InvalidMsgData when it does not recognise it
MsgRead(m, data, iter, size) ==
    LET k == MsgKind(m.id)
        fixedLen == SumSeq(k.fixed)
    IN IF k.variant
       THEN IF size < 1 THEN [es |-> NotEnoughData, msg |-> m, used |-> 0]
            ELSE IF data[iter + 1] \notin VariantKeys
                 THEN [es |-> InvalidMsgData, msg |-> m, used |-> 1]
            ELSE [es |-> Success,
                  msg |-> [m EXCEPT !.fields = <<data[iter + 1]>>],
                  used |-> 1]
       ELSE IF size < fixedLen
       THEN [es |-> NotEnoughData, msg |-> m, used |-> 0]
       ELSE LET fixed == MsgFixedFrom(k.fixed, data, iter, 1)
                rest == IF k.trailing
                        THEN SubSeq(data, iter + fixedLen + 1, iter + size)
                        ELSE <<>>
            IN [es |-> Success,
                msg |-> [m EXCEPT !.fields = fixed \o rest],
                used |-> fixedLen + Len(rest)]

----------------------------------------------------------------------------
(* The call state threaded through the layers of one stack operation *)

\* no message: an empty smart pointer
NoMsg == <<>>

Ret(c, e) == [c EXCEPT !.es = e]

\* record in the call's log that layer i did ev
Log(c, ev, i) == [c EXCEPT !.log = Append(@, <<ev, i>>)]

\* Field field; in read/write/update, getField<TIdx>(allFields) in the cached
\* variants: idx = 0 stands for the local, default constructed field
FieldValue(c, f, idx) == IF idx = 0 THEN f.dflt ELSE c.allFields[idx]

SetField(c, idx, v) == IF idx = 0 THEN c ELSE [c EXCEPT !.allFields[idx] = v]

\* writing bytes through the iterator at offset c.iter
Emit(c, bytes) ==
    LET n == Max(Len(c.data), c.iter + Len(bytes))
    IN [c EXCEPT
          !.data = [j \in 1..n |->
                      IF j > c.iter /\ j <= c.iter + Len(bytes)
                      THEN bytes[j - c.iter] ELSE c.data[j]],
          !.iter = c.iter + Len(bytes)]

----------------------------------------------------------------------------
(* Lengths *)

\* MsgDataLayer::length(): the payload needs no bytes of its own
PayloadLength == 0

RECURSIVE StackLength(_)

\* length() summing the longest serialisation of every field
StackLength_Max(i) ==
    IF i > Len(stack) THEN PayloadLength
    ELSE FieldMaxLength(stack[i].field) + StackLength(i + 1)

\* ProtocolLayerBase::length() of layer i (the payload layer past the last)
StackLength(i) ==
    IF i > Len(stack) THEN PayloadLength
    ELSE FieldMinLength(stack[i].field) + StackLength(i + 1)

RECURSIVE StackLengthMsg(_, _)
\* ProtocolLayerBase::length(msg) of layer i
StackLengthMsg(i, msg) ==
    IF i > Len(stack) THEN MsgLength(msg)
    ELSE FieldMinLength(stack[i].field) + StackLengthMsg(i + 1, msg)

\* updateMissingSize that does not subtract the bytes already available
UpdateMissingSize_NoSub(i, v, c, size) ==
    IF c.missingSize # NullPtr
    THEN LET totalLen == FieldLength(stack[i].field, v) + StackLength(i + 1)
         IN Log([c EXCEPT !.missingSize = Max(1, totalLen)], "missing", i)
    ELSE c

\* updateMissingSize without the lower limit of one byte
UpdateMissingSize_NoMax(i, v, c, size) ==
    IF c.missingSize # NullPtr
    THEN LET totalLen == FieldLength(stack[i].field, v) + StackLength(i + 1)
         IN Log([c EXCEPT !.missingSize = SizeTSub(totalLen, size)], "missing", i)
    ELSE c

\* updateMissingSize counting the layer's own field only
UpdateMissingSize_OwnField(i, v, c, size) ==
    IF c.missingSize # NullPtr
    THEN LET totalLen == FieldLength(stack[i].field, v)
         IN Log([c EXCEPT !.missingSize = Max(1, SizeTSub(totalLen, size))],
                "missing", i)
    ELSE c

\* ProtocolLayerBase::updateMissingSize(field, size, missingSize) in layer i,
\* the field holding value v
UpdateMissingSize(i, v, c, size) ==
    IF c.missingSize # NullPtr
    THEN LET totalLen == FieldLength(stack[i].field, v) + StackLength(i + 1)
         IN Log([c EXCEPT !.missingSize = Max(1, SizeTSub(totalLen, size))],
                "missing", i)
    ELSE c

----------------------------------------------------------------------------
(* read and readFieldsCached *)

RECURSIVE LayerRead(_, _, _, _)

\* NextLayerCachedFieldsReader<TIdx>::read handing its own slot TIdx on
NextLayerRead_SameSlot(i, idx, c, size) ==
    LayerRead(i + 1, idx, Log(c, "next", i), size)

\* NextLayerReader::read, and NextLayerCachedFieldsReader<TIdx>::read, which
\* hands slot TIdx + 1 to the next layer
NextLayerRead(i, idx, c, size) ==
    LayerRead(i + 1, IF idx = 0 THEN 0 ELSE idx + 1, Log(c, "next", i), size)

\* SyncPrefixLayer::doRead handing the next layer one byte less than remains
SyncDoRead_ShortSize(i, idx, c, size) ==
    LET f  == stack[i].field
        rd == FieldRead(f, FieldValue(c, f, idx), c.data, c.iter, size)
        c1 == SetField(Log([c EXCEPT !.iter = @ + rd.used], "field", i),
                       idx, rd.value)
        c2 == IF rd.es = NotEnoughData
              THEN UpdateMissingSize(i, rd.value, c1, size)
              ELSE c1
        rem == SizeTSub(size, FieldLength(f, rd.value))
    IN IF rd.es # Success THEN Ret(c2, rd.es)
       ELSE IF rd.value # f.dflt THEN Ret(c2, ProtocolError)
       ELSE NextLayerRead(i, idx, c2, IF rem > 0 THEN rem - 1 ELSE rem)

\* SyncPrefixLayer::doRead storing missingSize whatever the field read returned
SyncDoRead_AlwaysMissing(i, idx, c, size) ==
    LET f  == stack[i].field
        rd == FieldRead(f, FieldValue(c, f, idx), c.data, c.iter, size)
        c1 == SetField(Log([c EXCEPT !.iter = @ + rd.used], "field", i),
                       idx, rd.value)
        c2 == UpdateMissingSize(i, rd.value, c1, size)
    IN IF rd.es # Success THEN Ret(c2, rd.es)
       ELSE IF rd.value # f.dflt THEN Ret(c2, ProtocolError)
       ELSE NextLayerRead(i, idx, c2, SizeTSub(size, FieldLength(f, rd.value)))

\* SyncPrefixLayer::doRead stepping over the bytes at hand when the field ran
\* short
SyncDoRead_ConsumeOnFail(i, idx, c, size) ==
    LET f  == stack[i].field
        rd == FieldRead(f, FieldValue(c, f, idx), c.data, c.iter, size)
        c1 == SetField(Log([c EXCEPT !.iter = @ + rd.used], "field", i),
                       idx, rd.value)
        c2 == IF rd.es = NotEnoughData
              THEN UpdateMissingSize(i, rd.value, [c1 EXCEPT !.iter = @ + size],
                                     size)
              ELSE c1
    IN IF rd.es # Success THEN Ret(c2, rd.es)
       ELSE IF rd.value # f.dflt THEN Ret(c2, ProtocolError)
       ELSE NextLayerRead(i, idx, c2, SizeTSub(size, FieldLength(f, rd.value)))

\* SyncPrefixLayer::doRead moving the iterator back when the value differs
SyncDoRead_RestoreOnMismatch(i, idx, c, size) ==
    LET f  == stack[i].field
        rd == FieldRead(f, FieldValue(c, f, idx), c.data, c.iter, size)
        c1 == SetField(Log([c EXCEPT !.iter = @ + rd.used], "field", i),
                       idx, rd.value)
        c2 == IF rd.es = NotEnoughData
              THEN UpdateMissingSize(i, rd.value, c1, size)
              ELSE c1
    IN IF rd.es # Success THEN Ret(c2, rd.es)
       ELSE IF rd.value # f.dflt
            THEN Ret([c2 EXCEPT !.iter = c.iter], ProtocolError)
       ELSE NextLayerRead(i, idx, c2, SizeTSub(size, FieldLength(f, rd.value)))

\* SyncPrefixLayer::doRead comparing the value after the next layer has read
SyncDoRead_CompareAfter(i, idx, c, size) ==
    LET f  == stack[i].field
        rd == FieldRead(f, FieldValue(c, f, idx), c.data, c.iter, size)
        c1 == SetField(Log([c EXCEPT !.iter = @ + rd.used], "field", i),
                       idx, rd.value)
        c2 == IF rd.es = NotEnoughData
              THEN UpdateMissingSize(i, rd.value, c1, size)
              ELSE c1
        r  == NextLayerRead(i, idx, c2, SizeTSub(size, FieldLength(f, rd.value)))
    IN IF rd.es # Success THEN Ret(c2, rd.es)
       ELSE IF r.es = Success /\ rd.value # f.dflt THEN Ret(r, ProtocolError)
       ELSE r

\* SyncPrefixLayer::doRead without the comparison against Field()
SyncDoRead_NoCompare(i, idx, c, size) ==
    LET f  == stack[i].field
        rd == FieldRead(f, FieldValue(c, f, idx), c.data, c.iter, size)
        c1 == SetField(Log([c EXCEPT !.iter = @ + rd.used], "field", i),
                       idx, rd.value)
        c2 == IF rd.es = NotEnoughData
              THEN UpdateMissingSize(i, rd.value, c1, size)
              ELSE c1
    IN IF rd.es # Success THEN Ret(c2, rd.es)
       ELSE NextLayerRead(i, idx, c2, SizeTSub(size, FieldLength(f, rd.value)))

\* SyncPrefixLayer::doRead
SyncDoRead(i, idx, c, size) ==
    LET f  == stack[i].field
        rd == FieldRead(f, FieldValue(c, f, idx), c.data, c.iter, size)
        c1 == SetField(Log([c EXCEPT !.iter = @ + rd.used], "field", i),
                       idx, rd.value)
        c2 == IF rd.es = NotEnoughData
              THEN UpdateMissingSize(i, rd.value, c1, size)
              ELSE c1
    IN IF rd.es # Success THEN Ret(c2, rd.es)
       ELSE IF rd.value # f.dflt THEN Ret(c2, ProtocolError)
       ELSE NextLayerRead(i, idx, c2, SizeTSub(size, FieldLength(f, rd.value)))

\* MsgIdLayer::doRead: decode the id, create the message, recurse; the message
\* is released again when the payload read fails, which is what the
\* postcondition of read (Success if and only if msgPtr points to a valid
\* object) asks of the layer that allocates
IdDoRead(i, idx, c, size) ==
    LET f  == stack[i].field
        rd == FieldRead(f, FieldValue(c, f, idx), c.data, c.iter, size)
        c1 == SetField(Log([c EXCEPT !.iter = @ + rd.used], "field", i),
                       idx, rd.value)
        c2 == IF rd.es = NotEnoughData
              THEN UpdateMissingSize(i, rd.value, c1, size)
              ELSE c1
        r  == NextLayerRead(i, idx,
                  Log([c2 EXCEPT !.msgPtr = <<NewMsg(rd.value)>>], "alloc", i),
                  SizeTSub(size, FieldLength(f, rd.value)))
    IN IF rd.es # Success THEN Ret(c2, rd.es)
       ELSE IF rd.value \notin KnownIds
            THEN Ret([c2 EXCEPT !.iter = c.iter], InvalidMsgId)
       ELSE IF ~c.allocOk THEN Ret(c2, MsgAllocFailure)
       ELSE IF r.es # Success THEN [r EXCEPT !.msgPtr = NoMsg]
       ELSE r

\* MsgDataLayer::read: the message reads its own payload
PayloadRead(i, idx, c, size) ==
    LET m  == c.msgPtr[1]
        rd == MsgRead(m, c.data, c.iter, size)
        c1 == Log([c EXCEPT !.iter = @ + rd.used, !.msgPtr = <<rd.msg>>],
                  "field", i)
    IN IF rd.es = NotEnoughData
       THEN Ret(IF c.missingSize # NullPtr
                THEN Log([c1 EXCEPT !.missingSize =
                                       Max(1, SizeTSub(MsgLength(m), size))],
                         "missing", i)
                ELSE c1,
                rd.es)
       ELSE Ret(SetField(c1, idx, SubSeq(c.data, c.iter + 1, c.iter + rd.used)),
                rd.es)

\* MsgSizeLayer::doRead: the field holds the number of bytes that follow it;
\* the inner read is clipped to that number and must use all of it
SizeDoRead(i, idx, c, size) ==
    LET f   == stack[i].field
        rd  == FieldRead(f, FieldValue(c, f, idx), c.data, c.iter, size)
        len == FieldLength(f, rd.value)
        c1  == SetField(Log([c EXCEPT !.iter = @ + rd.used], "field", i),
                        idx, rd.value)
        c2  == IF rd.es = NotEnoughData
               THEN UpdateMissingSize(i, rd.value, c1, size)
               ELSE c1
        c3  == IF c1.missingSize # NullPtr
               THEN Log([c1 EXCEPT !.missingSize =
                                      Max(1, SizeTSub(rd.value + len, size))],
                        "missing", i)
               ELSE c1
        r   == NextLayerRead(i, idx, c1, rd.value)
    IN IF rd.es # Success THEN Ret(c2, rd.es)
       ELSE IF size < rd.value + len THEN Ret(c3, NotEnoughData)
       ELSE IF r.es = Success /\ r.iter < c1.iter + rd.value
            THEN Ret([r EXCEPT !.msgPtr = NoMsg], ProtocolError)
       ELSE r

\* read (idx = 0) or readFieldsCached<idx> of layer i
LayerRead(i, idx, c, size) ==
    IF i > Len(stack) THEN PayloadRead(i, idx, c, size)
    ELSE IF stack[i].kind = "sync" THEN SyncDoRead(i, idx, c, size)
    ELSE IF stack[i].kind = "size" THEN SizeDoRead(i, idx, c, size)
    ELSE IdDoRead(i, idx, c, size)

----------------------------------------------------------------------------
(* write and writeFieldsCached *)

RECURSIVE LayerWrite(_, _, _, _, _)

\* NextLayerWriter::write, and NextLayerCachedFieldsWriter<TIdx>::write
NextLayerWrite(i, idx, c, msg, size) ==
    LayerWrite(i + 1, IF idx = 0 THEN 0 ELSE idx + 1, Log(c, "next", i), msg, size)

\* field.write(iter, size) of the field holding v
FieldWrite(f, v, c, size) ==
    IF size < FieldLength(f, v) THEN Ret(c, BufferOverflow)
    ELSE Ret(Emit(c, FieldBytes(f, v)), Success)

\* SyncPrefixLayer::doWrite delegating before it writes its own field
SyncDoWrite_NextFirst(i, idx, c, msg, size) ==
    LET f  == stack[i].field
        v  == FieldValue(c, f, idx)
        c1 == NextLayerWrite(i, idx, c, msg, SizeTSub(size, FieldLength(f, v)))
    IN IF size < FieldLength(f, v) THEN Ret(Log(c, "field", i), BufferOverflow)
       ELSE IF c1.es # Success THEN c1
       ELSE FieldWrite(f, v, Log(c1, "field", i), FieldLength(f, v))

\* SyncPrefixLayer::doWrite
SyncDoWrite(i, idx, c, msg, size) ==
    LET f  == stack[i].field
        v  == FieldValue(c, f, idx)
        c1 == FieldWrite(f, v, Log(c, "field", i), size)
    IN IF c1.es # Success THEN c1
       ELSE NextLayerWrite(i, idx, c1, msg, SizeTSub(size, FieldLength(f, v)))

\* MsgIdLayer::doWrite: the field takes the id of the message
IdDoWrite(i, idx, c, msg, size) ==
    LET f  == stack[i].field
        v  == msg.id
        c1 == FieldWrite(f, v, SetField(Log(c, "field", i), idx, v), size)
    IN IF c1.es # Success THEN c1
       ELSE NextLayerWrite(i, idx, c1, msg, SizeTSub(size, FieldLength(f, v)))

\* MsgDataLayer::write: the message writes its own payload
PayloadWrite(i, idx, c, msg, size) ==
    IF size < MsgLength(msg) THEN Ret(Log(c, "field", i), BufferOverflow)
    ELSE Ret(SetField(Emit(Log(c, "field", i), MsgBytes(msg)), idx, MsgBytes(msg)),
             Success)

\* MsgSizeLayer::doWrite through an iterator that only appends: the field is
\* written as a placeholder holding 0 and UpdateRequired asks for the update
\* pass; through a random access iterator the slot is patched once the inner
\* layers have written
SizeDoWrite(i, idx, c, msg, size) ==
    LET f   == stack[i].field
        len == FieldMinLength(f)
        c1  == FieldWrite(f, 0, SetField(Log(c, "field", i), idx, 0), size)
        c2  == NextLayerWrite(i, idx, c1, msg, SizeTSub(size, len))
        v   == c2.iter - c1.iter
        c3  == [Emit([SetField(c2, idx, v) EXCEPT !.iter = c.iter],
                     FieldBytes(f, v))
                EXCEPT !.iter = c2.iter]
    IN IF c1.es # Success THEN c1
       ELSE IF c2.es \notin {Success, UpdateRequired} THEN c2
       ELSE IF c.pushBack THEN Ret(c2, UpdateRequired)
       ELSE c3

\* write (idx = 0) or writeFieldsCached<idx> of layer i
LayerWrite(i, idx, c, msg, size) ==
    IF i > Len(stack) THEN PayloadWrite(i, idx, c, msg, size)
    ELSE IF stack[i].kind = "sync" THEN SyncDoWrite(i, idx, c, msg, size)
    ELSE IF stack[i].kind = "size" THEN SizeDoWrite(i, idx, c, msg, size)
    ELSE IdDoWrite(i, idx, c, msg, size)

----------------------------------------------------------------------------
(* update and updateFieldsCached *)

RECURSIVE LayerUpdate(_, _, _, _)

\* NextLayerUpdater::update, and NextLayerCachedFieldsUpdater<TIdx>::update
NextLayerUpdate(i, idx, c, size) ==
    LayerUpdate(i + 1, IF idx = 0 THEN 0 ELSE idx + 1, Log(c, "next", i), size)

\* updateInternal(..., FixedLengthTag) handing the whole size to the next layer
UpdateInternalFixed_FullSize(i, idx, c, size) ==
    LET len == FieldLength(stack[i].field, FieldValue(c, stack[i].field, idx))
    IN NextLayerUpdate(i, idx, Log([c EXCEPT !.iter = @ + len], "field", i), size)

\* ProtocolLayerBase::updateInternal(..., FixedLengthTag)
UpdateInternalFixed(i, idx, c, size) ==
    LET len == FieldLength(stack[i].field, FieldValue(c, stack[i].field, idx))
    IN NextLayerUpdate(i, idx, Log([c EXCEPT !.iter = @ + len], "field", i),
                       SizeTSub(size, len))

\* ProtocolLayerBase::updateInternal(..., VarLengthTag)
UpdateInternalVar(i, idx, c, size) ==
    LET f  == stack[i].field
        rd == FieldRead(f, FieldValue(c, f, idx), c.data, c.iter, size)
        c1 == SetField(Log([c EXCEPT !.iter = @ + rd.used], "field", i),
                       idx, rd.value)
    IN IF rd.es = Success
       THEN NextLayerUpdate(i, idx, c1, SizeTSub(size, FieldLength(f, rd.value)))
       ELSE Ret(c1, rd.es)

\* ProtocolLayerBase::doUpdate, dispatching on LengthTag
DoUpdate(i, idx, c, size) ==
    IF FieldMinLength(stack[i].field) = FieldMaxLength(stack[i].field)
    THEN UpdateInternalFixed(i, idx, c, size)
    ELSE UpdateInternalVar(i, idx, c, size)

\* MsgDataLayer::update: nothing to patch in the payload
PayloadUpdate(i, idx, c, size) ==
    Ret(Log([c EXCEPT !.iter = @ + size], "field", i), Success)

\* MsgSizeLayer::doUpdate: the number of bytes behind the field is written
\* into the slot the write reserved
SizeDoUpdate(i, idx, c, size) ==
    LET f   == stack[i].field
        len == FieldMinLength(f)
        v   == SizeTSub(size, len)
        c1  == FieldWrite(f, v, SetField(Log(c, "field", i), idx, v), size)
    IN IF c1.es # Success THEN c1
       ELSE NextLayerUpdate(i, idx, c1, SizeTSub(size, len))

\* update (idx = 0) or updateFieldsCached<idx> of layer i
LayerUpdate(i, idx, c, size) ==
    IF i > Len(stack) THEN PayloadUpdate(i, idx, c, size)
    ELSE IF stack[i].kind = "size" THEN SizeDoUpdate(i, idx, c, size)
    ELSE DoUpdate(i, idx, c, size)

----------------------------------------------------------------------------
(* The stacks, messages and inputs the model draws from *)

\* Sync(2 bytes, 0xABCD) + MsgId(1 byte) + Payload
StackFixed ==
    <<[kind |-> "sync", field |-> FixedField(2, 43981)],
      [kind |-> "id",   field |-> FixedField(1, 0)]>>

\* Sync(variable length, serialised as AB 07) + MsgId(variable length) + Payload
StackVar ==
    <<[kind |-> "sync", field |-> VarField(5511)],
      [kind |-> "id",   field |-> VarField(0)]>>

Stacks == {StackFixed, StackVar}

\* Sync(1 byte, 0xAB) + Size(1 byte, covers id + payload) + MsgId(1 byte)
\* + Payload
StackSized ==
    <<[kind |-> "sync", field |-> FixedField(1, 171)],
      [kind |-> "size", field |-> FixedField(1, 0)],
      [kind |-> "id",   field |-> FixedField(1, 0)]>>

RECURSIVE SeqsUpTo(_, _)
\* the sequences over S of length at most n
SeqsUpTo(S, n) ==
    IF n = 0 THEN {<<>>}
    ELSE LET shorter == SeqsUpTo(S, n - 1)
         IN shorter \cup {Append(q, x) : q \in shorter, x \in S}

\* bytes seen on the wire: 01, 07, AB, CD, CE
WireBytes == {1, 7, 171, 205, 206}

\* Ping{seq = 7}, Ping{seq = 0x0107} and the Data messages over 01 and AB
Msgs ==
    {[id |-> 1, fields |-> <<q>>] : q \in {7, 263}}
    \cup {[id |-> 2, fields |-> d] : d \in SeqsUpTo({1, 171}, MaxData)}

\* the AllFields tuple as default constructed: one slot per layer, then the
\* payload's raw data
DefaultFields ==
    [i \in 1..(Len(stack) + 1) |->
        IF i <= Len(stack) THEN stack[i].field.dflt ELSE <<>>]

\* an AllFields tuple still holding the values of some earlier use: 1 in a
\* fixed length field, 5505 (serialised AB 01) in a variable length one
StaleFields ==
    [i \in 1..(Len(stack) + 1) |->
        IF i <= Len(stack)
        THEN (IF stack[i].field.var THEN 5505 ELSE 1)
        ELSE <<7>>]

\* the state of a call before its first layer runs
Call(data, ms, af, ao) ==
    [data |-> data, iter |-> 0, msgPtr |-> NoMsg, missingSize |-> ms,
     allFields |-> af, log |-> <<>>, es |-> "none", allocOk |-> ao,
     pushBack |-> FALSE]

Args(size, ms, af, msg, ao) ==
    [size |-> size, missingSize |-> ms, allFields |-> af, msg |-> msg,
     allocOk |-> ao]

----------------------------------------------------------------------------
(* Field objects: comms::field::Bitfield and comms::field::EnumValue *)

\* no field object is under test
FieldIdle ==
    /\ fld = [kind |-> "none"]
    /\ fval = <<>>
    /\ fbuf = <<>>
    /\ fsent = <<>>
    /\ fop = "init"
    /\ fres = [es |-> "none"]

\* an unsigned integer member carrying FixedBitLength<bits>, valid within lo..hi
Member(bits, lo, hi) == [bits |-> bits, lo |-> lo, hi |-> hi]

\* Bitfield<TFieldBase, std::tuple<members...>, options...>; validator names the
\* ContentsValidator option, "none" when the option is not used
BitfieldType(members, validator) ==
    [kind |-> "bitfield", members |-> members, validator |-> validator]

\* EnumValue<TFieldBase, TEnum, options...>: the enumerators TEnum declares, the
\* serialisation length and the valid ranges the options configure
EnumType(enumerators, len, ranges) ==
    [kind |-> "enum", enumerators |-> enumerators, len |-> len, ranges |-> ranges]

\* the bit offset of member i: the bit lengths of the members before it
RECURSIVE BitOffset(_, _)
BitOffset(t, i) ==
    IF i = 1 THEN 0 ELSE BitOffset(t, i - 1) + t.members[i - 1].bits

\* the serialisation length in bytes
BitfieldLength(t) == BitOffset(t, Len(t.members) + 1) \div 8

\* the packed word: every member's value cut to its bit length and shifted to
\* its offset, member by member
RECURSIVE PackFrom(_, _, _)
PackFrom(t, v, i) ==
    IF i > Len(t.members) THEN 0
    ELSE (v[i] % (2 ^ t.members[i].bits)) * (2 ^ BitOffset(t, i))
         + PackFrom(t, v, i + 1)

\* the member values extracted from a packed word by shifting and masking
Unpack(t, word) ==
    [i \in 1..Len(t.members) |->
        (word \div (2 ^ BitOffset(t, i))) % (2 ^ t.members[i].bits)]

\* basic::Bitfield::write: the packed word under the big endian of the field base
BasicBitfieldWrite(t, v, size) ==
    IF size < BitfieldLength(t)
    THEN [es |-> BufferOverflow, bytes |-> <<>>]
    ELSE [es |-> Success, bytes |-> EncodeBE(PackFrom(t, v, 1), BitfieldLength(t))]

\* basic::Bitfield::read
BasicBitfieldRead(t, old, data, size) ==
    IF size < BitfieldLength(t)
    THEN [es |-> NotEnoughData, value |-> old]
    ELSE [es |-> Success,
          value |-> Unpack(t, DecodeBE(SubSeq(data, 1, BitfieldLength(t))))]

\* the contents validators in use: the first member may not exceed the second
ContentsValidator(name, v) == name = "ordered" => v[1] <= v[2]

\* basic::Bitfield::valid: the members one after the other
RECURSIVE MembersValidFrom(_, _, _)
MembersValidFrom(t, v, i) ==
    IF i > Len(t.members) THEN TRUE
    ELSE IF v[i] < t.members[i].lo \/ v[i] > t.members[i].hi THEN FALSE
    ELSE MembersValidFrom(t, v, i + 1)

\* valid() of the adapted basic field: the ContentsValidator option wraps
\* basic::Bitfield::valid
AdaptedBitfieldValid(t, v) ==
    IF t.validator = "none" THEN MembersValidFrom(t, v, 1)
    ELSE MembersValidFrom(t, v, 1) /\ ContentsValidator(t.validator, v)

\* Bitfield::write emitting the packed word little endian
BitfieldWrite_LittleEndian(t, v, size) ==
    LET w == BasicBitfieldWrite(t, v, size)
    IN [w EXCEPT !.bytes = [j \in 1..Len(@) |-> @[Len(@) + 1 - j]]]

\* Bitfield::write packing the members' values uncut
BitfieldWrite_NoMask(t, v, size) ==
    IF size < BitfieldLength(t)
    THEN [es |-> BufferOverflow, bytes |-> <<>>]
    ELSE [es |-> Success,
          bytes |-> EncodeBE(
              SumSeq([i \in 1..Len(t.members) |-> v[i] * (2 ^ BitOffset(t, i))]),
              BitfieldLength(t))]

\* Bitfield::write
BitfieldWrite(t, v, size) == BasicBitfieldWrite(t, v, size)

\* Bitfield::read
BitfieldRead(t, old, data, size) == BasicBitfieldRead(t, old, data, size)

\* Bitfield::valid that leaves the contents validator out
BitfieldValid_MembersOnly(t, v) == MembersValidFrom(t, v, 1)

\* Bitfield::valid
BitfieldValid(t, v) == AdaptedBitfieldValid(t, v)

\* refresh() of an integral member field: nothing to recompute
MemberRefresh(m, x) == [refreshed |-> FALSE, value |-> x]

\* basic::Bitfield::refresh: refresh() of every member, true if any returned
\* true
BasicBitfieldRefresh(t, v) ==
    LET r == [i \in 1..Len(t.members) |-> MemberRefresh(t.members[i], v[i])]
    IN [refreshed |-> \E i \in 1..Len(t.members) : r[i].refreshed,
        members |-> [i \in 1..Len(t.members) |-> r[i].refreshed],
        value |-> [i \in 1..Len(t.members) |-> r[i].value]]

\* Bitfield::refresh reporting a change whatever the members report
BitfieldRefresh_AlwaysTrue(t, v) == [BasicBitfieldRefresh(t, v) EXCEPT !.refreshed = TRUE]

\* Bitfield::refresh
BitfieldRefresh(t, v) == BasicBitfieldRefresh(t, v)

\* IntValue::valid: inside one of the configured ranges, any value when none is
\* configured
IntValid(t, v) == t.ranges = {} \/ \E r \in t.ranges : r[1] <= v /\ v <= r[2]

\* EnumValue::valid asking whether the value is a declared enumerator
EnumValid_Declared(t, v) == v[1] \in t.enumerators

\* EnumValue::valid
EnumValid(t, v) == IntValid(t, v[1])

\* EnumValue::write
EnumWrite(t, v, size) ==
    IF size < t.len THEN [es |-> BufferOverflow, bytes |-> <<>>]
    ELSE [es |-> Success, bytes |-> EncodeBE(v[1], t.len)]

\* EnumValue::read
EnumRead(t, old, data, size) ==
    IF size < t.len THEN [es |-> NotEnoughData, value |-> old]
    ELSE [es |-> Success, value |-> <<DecodeBE(SubSeq(data, 1, t.len))>>]

----------------------------------------------------------------------------
(* The message interface: comms/details/MessageInterfaceOptionsParser.h and *)
(* comms/details/MessageInterfaceBuilder.h                                  *)

\* an option as written in the template argument list
Opt(name) == [opt |-> name, of |-> <<>>]

\* std::tuple<TBundledOptions...>
Bundle(options) == [opt |-> "tuple", of |-> options]

\* the flags of the parsed options
FlagNames ==
    {"HasMsgIdType", "HasEndian", "HasReadIterator", "HasWriteIterator",
     "HasMsgIdInfo", "HasHandler", "HasValid", "HasLength", "HasRefresh",
     "HasNoVirtualDestructor"}

\* the flag each option's specialisation sets
FlagOf(name) ==
    CASE name = "MsgIdType" -> "HasMsgIdType"
      [] name = "IdInfoInterface" -> "HasMsgIdInfo"
      [] name = "Endian" -> "HasEndian"
      [] name = "ReadIterator" -> "HasReadIterator"
      [] name = "WriteIterator" -> "HasWriteIterator"
      [] name = "Handler" -> "HasHandler"
      [] name = "ValidCheckInterface" -> "HasValid"
      [] name = "LengthInfoInterface" -> "HasLength"
      [] name = "RefreshInterface" -> "HasRefresh"
      [] name = "NoVirtualDestructor" -> "HasNoVirtualDestructor"

RECURSIVE MessageInterfaceOptionsParser(_)

\* the bundled options are dropped instead of being parsed in place
ParseBundle_Skip(head, rest) == MessageInterfaceOptionsParser(rest)

\* std::tuple: the bundled options are parsed in front of the remaining ones
ParseBundle(head, rest) == MessageInterfaceOptionsParser(head.of \o rest)

\* the options parsed left to right: every option sets its flag on top of the
\* flags of the options after it
MessageInterfaceOptionsParser(options) ==
    IF options = <<>> THEN [n \in FlagNames |-> FALSE]
    ELSE LET head == Head(options)
             rest == Tail(options)
         IN IF head.opt = "tuple" THEN ParseBundle(head, rest)
            ELSE IF head.opt = "EmptyOption" THEN MessageInterfaceOptionsParser(rest)
            ELSE [MessageInterfaceOptionsParser(rest) EXCEPT ![FlagOf(head.opt)] = TRUE]

MessageInterfaceEndianBaseT(opts) ==
    IF opts.HasEndian THEN <<"MessageInterfaceEndianBase">>
    ELSE <<"MessageInterfaceEmptyBase">>

MessageInterfaceIdTypeBaseT(base, opts) ==
    IF opts.HasMsgIdType THEN Append(base, "MessageInterfaceIdTypeBase") ELSE base

\* the id retrieval is left out
MessageInterfaceIdInfoBaseT_Omitted(base, opts) == base

MessageInterfaceIdInfoBaseT(base, opts) ==
    IF opts.HasMsgIdType /\ opts.HasMsgIdInfo
    THEN Append(base, "MessageInterfaceIdInfoBase") ELSE base

MessageInterfaceReadWriteBaseT(base, opts) ==
    IF opts.HasReadIterator /\ opts.HasWriteIterator
    THEN Append(base, "MessageInterfaceReadWriteBase")
    ELSE IF opts.HasReadIterator THEN Append(base, "MessageInterfaceReadOnlyBase")
    ELSE IF opts.HasWriteIterator THEN Append(base, "MessageInterfaceWriteOnlyBase")
    ELSE base

MessageInterfaceValidBaseT(base, opts) ==
    IF opts.HasValid THEN Append(base, "MessageInterfaceValidBase") ELSE base

MessageInterfaceLengthBaseT(base, opts) ==
    IF opts.HasLength THEN Append(base, "MessageInterfaceLengthBase") ELSE base

MessageInterfaceHandlerBaseT(base, opts) ==
    IF opts.HasHandler THEN Append(base, "MessageInterfaceHandlerBase") ELSE base

MessageInterfaceRefreshBaseT(base, opts) ==
    IF opts.HasRefresh THEN Append(base, "MessageInterfaceRefreshBase") ELSE base

messageInterfaceHasVirtualFunctions(opts) ==
    \/ opts.HasReadIterator
    \/ opts.HasWriteIterator
    \/ opts.HasMsgIdInfo
    \/ opts.HasHandler
    \/ opts.HasValid
    \/ opts.HasLength
    \/ opts.HasRefresh

MessageInterfaceVirtDestructorBaseT(base, opts) ==
    IF (~opts.HasNoVirtualDestructor) /\ messageInterfaceHasVirtualFunctions(opts)
    THEN Append(base, "MessageInterfaceVirtDestructorBase") ELSE base

\* the chain of base classes of the interface, innermost first
MessageInterfaceBuilder(options) ==
    LET ParsedOptions == MessageInterfaceOptionsParser(options)
        EndianBase == MessageInterfaceEndianBaseT(ParsedOptions)
        IdTypeBase == MessageInterfaceIdTypeBaseT(EndianBase, ParsedOptions)
        IdInfoBase == MessageInterfaceIdInfoBaseT(IdTypeBase, ParsedOptions)
        ReadWriteBase == MessageInterfaceReadWriteBaseT(IdInfoBase, ParsedOptions)
        ValidBase == MessageInterfaceValidBaseT(ReadWriteBase, ParsedOptions)
        LengthBase == MessageInterfaceLengthBaseT(ValidBase, ParsedOptions)
        HandlerBase == MessageInterfaceHandlerBaseT(LengthBase, ParsedOptions)
        RefreshBase == MessageInterfaceRefreshBaseT(HandlerBase, ParsedOptions)
    IN MessageInterfaceVirtDestructorBaseT(RefreshBase, ParsedOptions)

\* the public member functions a base class adds to the interface
PublicMembers(base) ==
    CASE base = "MessageInterfaceIdInfoBase" -> {"getId"}
      [] base = "MessageInterfaceReadOnlyBase" -> {"read"}
      [] base = "MessageInterfaceWriteOnlyBase" -> {"write"}
      [] base = "MessageInterfaceReadWriteBase" -> {"read", "write"}
      [] base = "MessageInterfaceValidBase" -> {"valid"}
      [] base = "MessageInterfaceLengthBase" -> {"length"}
      [] base = "MessageInterfaceHandlerBase" -> {"dispatch"}
      [] base = "MessageInterfaceRefreshBase" -> {"refresh"}
      [] OTHER -> {}

\* the virtual member functions a base class declares
VirtualMembers(base) ==
    CASE base = "MessageInterfaceIdInfoBase" -> {"getIdImpl"}
      [] base = "MessageInterfaceReadOnlyBase" -> {"readImpl"}
      [] base = "MessageInterfaceWriteOnlyBase" -> {"writeImpl"}
      [] base = "MessageInterfaceReadWriteBase" -> {"readImpl", "writeImpl"}
      [] base = "MessageInterfaceValidBase" -> {"validImpl"}
      [] base = "MessageInterfaceLengthBase" -> {"lengthImpl"}
      [] base = "MessageInterfaceHandlerBase" -> {"dispatchImpl"}
      [] base = "MessageInterfaceRefreshBase" -> {"refreshImpl"}
      [] base = "MessageInterfaceVirtDestructorBase" -> {"destructor"}
      [] OTHER -> {}

Range(seq) == {seq[k] : k \in 1..Len(seq)}

\* what can be called through an interface with these base classes
Capabilities(bases) == UNION {PublicMembers(b) : b \in Range(bases)}

\* the virtual functions of an interface with these base classes
Virtuals(bases) == UNION {VirtualMembers(b) : b \in Range(bases)}

\* createAllMessagesImpl is not under test
CreateIdle ==
    /\ createInfos = <<>>
    /\ cidx = 0
    /\ cpc = "idle"
    /\ clast = [es |-> "none"]

\* no GuiAppMgr is under test
GuiIdle ==
    /\ mgr = <<>>
    /\ msgMgr = <<>>
    /\ ui = <<>>
    /\ gev = [op |-> "init"]

\* no Protocol object is under test
ProtIdle ==
    /\ m_data = <<>>
    /\ readIterBeg = 0
    /\ allInfos = <<>>
    /\ ppc = "idle"
    /\ piter = [es |-> "none"]
    /\ pcall = [n |-> 0]

\* no message interface is under test
IfaceIdle ==
    /\ iopts = <<>>
    /\ ibases = <<>>
    /\ imsg = [overrides |-> FALSE]
    /\ iop = "init"
    /\ ires = [es |-> "none"]

----------------------------------------------------------------------------
(* The state machine of the layer stack *)

\* No operation reads what an earlier call left in op, args or res: a buffer
\* is filled once (received from the wire, or written and then possibly damaged)
\* and one stack operation is then applied to it.  Filling only from the initial
\* state and operating only on a filled buffer reaches every buffer and every
\* result of an operation that interleaving the calls freely would reach.
Fresh == op = "init"

Filled == op \in {"receive", "corrupt", "write", "writeFieldsCached"}

StackInit ==
    /\ stack \in Stacks
    /\ buf = <<>>
    /\ sent = NoMsg
    /\ op = "init"
    /\ args = Args(0, NullPtr, DefaultFields, NoMsg, TRUE)
    /\ res = Call(<<>>, NullPtr, DefaultFields, TRUE)
    /\ FieldIdle
    /\ IfaceIdle
    /\ ProtIdle
    /\ CreateIdle
    /\ GuiIdle

\* bytes arrive from the wire and replace the buffer
Receive(bytes) ==
    /\ Fresh
    /\ buf' = bytes
    /\ sent' = NoMsg
    /\ op' = "receive"
    /\ args' = Args(0, NullPtr, DefaultFields, NoMsg, TRUE)
    /\ res' = Call(bytes, NullPtr, DefaultFields, TRUE)
    /\ UNCHANGED <<stack, fieldVars, ifaceVars, protVars, createVars, guiVars>>

\* one byte of a written frame is damaged on the wire
Corrupt(k, b) ==
    /\ Filled
    /\ sent # NoMsg
    /\ k \in 1..Len(buf)
    /\ buf[k] # b
    /\ buf' = [buf EXCEPT ![k] = b]
    /\ sent' = NoMsg
    /\ op' = "corrupt"
    /\ args' = Args(0, NullPtr, DefaultFields, NoMsg, TRUE)
    /\ res' = Call(buf', NullPtr, DefaultFields, TRUE)
    /\ UNCHANGED <<stack, fieldVars, ifaceVars, protVars, createVars, guiVars>>

\* stack.read(msgPtr, iter, size, missingSize) on the first size bytes of buf
Read(size, ms, ao) ==
    /\ Filled
    /\ op' = "read"
    /\ args' = Args(size, ms, DefaultFields, NoMsg, ao)
    /\ res' = LayerRead(1, 0, Call(buf, ms, DefaultFields, ao), size)
    /\ UNCHANGED <<stack, buf, sent, fieldVars, ifaceVars, protVars, createVars, guiVars>>

\* stack.readFieldsCached<0>(allFields, msgPtr, iter, size, missingSize)
ReadFieldsCached(size, ms, af, ao) ==
    /\ Filled
    /\ op' = "readFieldsCached"
    /\ args' = Args(size, ms, af, NoMsg, ao)
    /\ res' = LayerRead(1, 1, Call(buf, ms, af, ao), size)
    /\ UNCHANGED <<stack, buf, sent, fieldVars, ifaceVars, protVars, createVars, guiVars>>

\* stack.write(msg, iter, size) into an empty buffer of size bytes
Write(msg, size) ==
    /\ Fresh
    /\ op' = "write"
    /\ args' = Args(size, NullPtr, DefaultFields, <<msg>>, TRUE)
    /\ res' = LayerWrite(1, 0, Call(<<>>, NullPtr, DefaultFields, TRUE), msg, size)
    /\ buf' = res'.data
    /\ sent' = IF res'.es = Success THEN <<msg>> ELSE NoMsg
    /\ UNCHANGED <<stack, fieldVars, ifaceVars, protVars, createVars, guiVars>>

\* stack.writeFieldsCached<0>(allFields, msg, iter, size)
WriteFieldsCached(msg, size, af) ==
    /\ Fresh
    /\ op' = "writeFieldsCached"
    /\ args' = Args(size, NullPtr, af, <<msg>>, TRUE)
    /\ res' = LayerWrite(1, 1, Call(<<>>, NullPtr, af, TRUE), msg, size)
    /\ buf' = res'.data
    /\ sent' = IF res'.es = Success THEN <<msg>> ELSE NoMsg
    /\ UNCHANGED <<stack, fieldVars, ifaceVars, protVars, createVars, guiVars>>

\* GASSERT(len <= size) of updateInternal(..., FixedLengthTag): a stack of fixed
\* length fields is updated only over a buffer that holds them all
UpdateAsserts ==
    (\A i \in 1..Len(stack) : ~stack[i].field.var) => StackLength(1) <= Len(buf)

\* stack.update(iter, size) over the whole buffer, written or received
Update ==
    /\ Filled
    /\ UpdateAsserts
    /\ op' = "update"
    /\ args' = Args(Len(buf), NullPtr, DefaultFields, NoMsg, TRUE)
    /\ res' = LayerUpdate(1, 0, Call(buf, NullPtr, DefaultFields, TRUE), Len(buf))
    /\ UNCHANGED <<stack, buf, sent, fieldVars, ifaceVars, protVars, createVars, guiVars>>

\* stack.updateFieldsCached<0>(allFields, iter, size)
UpdateFieldsCached(af) ==
    /\ Filled
    /\ UpdateAsserts
    /\ op' = "updateFieldsCached"
    /\ args' = Args(Len(buf), NullPtr, af, NoMsg, TRUE)
    /\ res' = LayerUpdate(1, 1, Call(buf, NullPtr, af, TRUE), Len(buf))
    /\ UNCHANGED <<stack, buf, sent, fieldVars, ifaceVars, protVars, createVars, guiVars>>

\* stack.length() and stack.length(msg)
Length(msg) ==
    /\ Fresh
    /\ op' = "length"
    /\ args' = Args(0, NullPtr, DefaultFields, <<msg>>, TRUE)
    /\ res' = [length |-> StackLength(1), lengthMsg |-> StackLengthMsg(1, msg)]
    /\ UNCHANGED <<stack, buf, sent, fieldVars, ifaceVars, protVars, createVars, guiVars>>

\* the largest buffer size offered to a write
MaxCap == 6

StackNext ==
    \/ \E bytes \in SeqsUpTo(WireBytes, MaxRecv) : Receive(bytes)
    \/ \E k \in 1..Len(buf), b \in WireBytes : Corrupt(k, b)
    \/ \E size \in 0..Len(buf), ms \in {NullPtr, 0}, ao \in BOOLEAN :
          Read(size, ms, ao)
    \/ \E size \in 0..Len(buf), ms \in {NullPtr, 0}, ao \in BOOLEAN,
          af \in {DefaultFields, StaleFields} :
          ReadFieldsCached(size, ms, af, ao)
    \/ \E msg \in Msgs, size \in 0..MaxCap : Write(msg, size)
    \/ \E msg \in Msgs, size \in 0..MaxCap, af \in {DefaultFields, StaleFields} :
          WriteFieldsCached(msg, size, af)
    \/ Update
    \/ \E af \in {DefaultFields, StaleFields} : UpdateFieldsCached(af)
    \/ \E msg \in Msgs : Length(msg)

SpecStack == StackInit /\ [][StackNext]_vars

----------------------------------------------------------------------------
(* Properties of the layer stack *)

IsRead == op \in {"read", "readFieldsCached"}

IsWrite == op \in {"write", "writeFieldsCached"}

IsUpdate == op \in {"update", "updateFieldsCached"}

\* the outermost layer's field and what a read of it finds at the head of buf
OuterField == stack[1].field

OuterRead == FieldRead(OuterField, OuterField.dflt, buf, 0, args.size)

HasEvent(ev, i) == \E p \in 1..Len(res.log) : res.log[p] = <<ev, i>>

\* C1: when the sync field is read successfully but differs from the constant
\* sync value, read returns ProtocolError, the next layer's read is not
\* invoked and no message is allocated.
C1_SyncMismatch ==
    (IsRead /\ OuterRead.es = Success /\ OuterRead.value # OuterField.dflt)
        => /\ res.es = ProtocolError
           /\ ~HasEvent("next", 1)
           /\ \A i \in 1..Len(stack) : ~HasEvent("alloc", i)
           /\ res.msgPtr = NoMsg

\* the fixed stack reads AB CE: the sync field is read and does not match
C1_Witness ==
    /\ IsRead
    /\ stack = StackFixed
    /\ Len(buf) >= 2
    /\ SubSeq(buf, 1, 2) = <<171, 206>>
    /\ args.size >= 2
    /\ res.es = ProtocolError

\* C2 (as claimed): write and writeFieldsCached alike emit the constant sync
\* value as the sync field's bytes, whatever the AllFields tuple held before,
\* and delegate to the next layer with the size reduced by the field length.
C2_WriteEmitsConstant ==
    (IsWrite /\ res.es = Success)
        => /\ Len(res.data) >= FieldLength(OuterField, OuterField.dflt)
           /\ SubSeq(res.data, 1, FieldLength(OuterField, OuterField.dflt))
                 = FieldBytes(OuterField, OuterField.dflt)
           /\ HasEvent("next", 1)

\* C3 (as claimed): Sync(2 bytes, ABCD) + MsgId(1 byte) + Payload reading the
\* single byte AB returns NotEnoughData with missing = 1.
C3_MissingIsOne ==
    (IsRead /\ stack = StackFixed /\ buf = <<171>> /\ args.size = 1
            /\ args.missingSize # NullPtr)
        => res.es = NotEnoughData /\ res.missingSize = 1

\* C3 (amended): the same read returns NotEnoughData with missing = 2, the
\* second sync byte and the shortest possible id.
C3_MissingIsTwo ==
    (IsRead /\ stack = StackFixed /\ buf = <<171>> /\ args.size = 1
            /\ args.missingSize # NullPtr)
        => res.es = NotEnoughData /\ res.missingSize = 2

C3_Witness ==
    /\ IsRead /\ stack = StackFixed /\ buf = <<171>> /\ args.size = 1
    /\ args.missingSize # NullPtr
    /\ res.es = NotEnoughData

\* the frame stack.write(m) produces given room enough
Frame(m) ==
    LayerWrite(1, 0, Call(<<>>, NullPtr, DefaultFields, TRUE), m, SizeTMod - 1).data

\* buf is the valid frame of the message in sent
ValidFrame == sent # NoMsg /\ buf = Frame(sent[1])

\* the layer that stored missingSize last (the payload layer counts past the
\* last middle layer), 0 when none did
MissingLayer ==
    IF res.log # <<>> /\ res.log[Len(res.log)][1] = "missing"
    THEN res.log[Len(res.log)][2] ELSE 0

C5_MissingAtLeastOne ==
    (IsRead /\ res.es = NotEnoughData /\ args.missingSize # NullPtr)
        => /\ res.missingSize >= 1
           /\ MissingLayer >= 1
           /\ MissingLayer <= Len(stack) =>
                 LET i == MissingLayer
                     held == IF op = "read" THEN stack[i].field.dflt
                             ELSE res.allFields[i]
                 IN res.missingSize =
                       Max(1, FieldLength(stack[i].field, held) + StackLength(i + 1)
                              - (args.size - res.iter))

\* a field runs short although the bytes at hand already cover
\* field.length() + nextLayer.length(): the limit of 1 decides
C5_Witness ==
    /\ IsRead /\ res.es = NotEnoughData /\ args.missingSize # NullPtr
    /\ MissingLayer >= 1 /\ MissingLayer <= Len(stack)
    /\ FieldLength(stack[MissingLayer].field,
                   IF op = "read" THEN stack[MissingLayer].field.dflt
                   ELSE res.allFields[MissingLayer])
          + StackLength(MissingLayer + 1) - (args.size - res.iter) < 1
    /\ res.missingSize = 1

\* C6: with missingSize supplied, a stack read stores into it if and only if it
\* returns NotEnoughData; on every other status the prior value is kept.
C6_MissingIffNotEnoughData ==
    (IsRead /\ args.missingSize # NullPtr)
        => /\ (res.es = NotEnoughData)
                 <=> (\E p \in 1..Len(res.log) : res.log[p][1] = "missing")
           /\ res.es # NotEnoughData => res.missingSize = args.missingSize

\* a read that fails on the sync value leaves missingSize as it was
C6_Witness ==
    /\ IsRead /\ args.missingSize # NullPtr
    /\ res.es = ProtocolError
    /\ HasEvent("field", 1)
    /\ res.missingSize = args.missingSize

\* C7: round trip: when write(m) succeeds and a read of the buffer it filled
\* succeeds, the message read equals m in every field.
C7_RoundTrip ==
    (IsRead /\ sent # NoMsg /\ args.size = Len(buf) /\ res.es = Success)
        => res.msgPtr = sent

\* a Data message with a full trailing list makes the round trip
C7_Witness ==
    /\ IsRead /\ sent # NoMsg /\ args.size = Len(buf) /\ res.es = Success
    /\ sent[1].id = 2
    /\ Len(sent[1].fields) = MaxData
    /\ res.msgPtr = sent

\* C8 (as claimed): a successful write advances the iterator by exactly
\* stack.length(msg), whatever the field types of the layers.
C8_LengthExact ==
    (IsWrite /\ res.es = Success) => res.iter = StackLengthMsg(1, args.msg[1])

\* C9: stack.length() <= stack.length(m) for every message m, length() being
\* the sum of the layers' minimum field lengths and of the payload layer's
\* message independent length.
C9_LengthBound ==
    op = "length"
        => /\ res.length <= res.lengthMsg
           /\ res.length =
                 SumSeq([i \in 1..Len(stack) |-> FieldMinLength(stack[i].field)])
                 + PayloadLength

\* the message adds to the length
C9_Witness == op = "length" /\ res.length < res.lengthMsg

CountEvent(ev, i) == Cardinality({p \in 1..Len(res.log) : res.log[p] = <<ev, i>>})

PlainRead ==
    LayerRead(1, 0, Call(buf, args.missingSize, DefaultFields, args.allocOk),
              args.size)

PlainWrite ==
    LayerWrite(1, 0, Call(<<>>, NullPtr, DefaultFields, TRUE), args.msg[1],
               args.size)

PlainUpdate ==
    LayerUpdate(1, 0, Call(buf, NullPtr, DefaultFields, TRUE), args.size)

\* the cached read agrees with read in status, iterator and message
CachedReadSame ==
    op = "readFieldsCached"
        => /\ res.es = PlainRead.es
           /\ res.iter = PlainRead.iter
           /\ res.msgPtr = PlainRead.msgPtr

\* the cached update agrees with update in status, iterator and bytes
CachedUpdateSame ==
    op = "updateFieldsCached"
        => /\ res.es = PlainUpdate.es
           /\ res.iter = PlainUpdate.iter
           /\ res.data = PlainUpdate.data

\* C11 (as claimed): readFieldsCached, writeFieldsCached and updateFieldsCached
\* return the same status, advance the iterator by the same amount and produce
\* the same message or bytes as read, write and update on the same input.
C11_CachedSameAsPlain ==
    /\ CachedReadSame
    /\ CachedUpdateSame
    /\ op = "writeFieldsCached"
          => /\ res.es = PlainWrite.es
             /\ res.iter = PlainWrite.iter
             /\ res.data = PlainWrite.data

RECURSIVE FieldOffset(_)
\* where in buf the field of layer i starts, the fields before it decoded
FieldOffset(i) ==
    IF i = 1 THEN 0
    ELSE FieldOffset(i - 1)
         + FieldRead(stack[i - 1].field, 0, buf, FieldOffset(i - 1),
                     args.size - FieldOffset(i - 1)).used

\* what the field of layer i decodes from buf at its offset
FieldSeen(i) ==
    FieldRead(stack[i].field, args.allFields[i], buf, FieldOffset(i),
              args.size - FieldOffset(i))

\* C12: readFieldsCached<0> leaves in slot i of the AllFields tuple the value
\* the i-th layer read from the buffer, and every slot whose layer was not
\* reached keeps the value it held before the call.
C12_SlotPerLayer ==
    op = "readFieldsCached"
        => /\ \A i \in 1..Len(stack) :
                 IF HasEvent("field", i)
                 THEN FieldSeen(i).es = Success
                         => res.allFields[i] = FieldSeen(i).value
                 ELSE res.allFields[i] = args.allFields[i]
           /\ ~HasEvent("field", Len(stack) + 1)
                 => res.allFields[Len(stack) + 1] = args.allFields[Len(stack) + 1]

\* a reused tuple after a read that stopped at an unknown id: the sync and id
\* slots hold what was read, the payload slot what it held before
C12_Witness ==
    /\ op = "readFieldsCached"
    /\ args.allFields = StaleFields
    /\ res.es = InvalidMsgId
    /\ res.allFields[1] = OuterField.dflt
    /\ res.allFields[2] \notin KnownIds
    /\ res.allFields[2] # args.allFields[2]
    /\ res.allFields[3] = args.allFields[3]

\* C13: the default update leaves the buffer as it is; every layer moves the
\* iterator over its own field and hands the rest of the size to the next
\* layer, so that a successful update ends size bytes on; a variable length
\* field is read back from the buffer, and when that read fails its status is
\* returned with the iterator at the field and the next layer not invoked.
C13_DefaultUpdate ==
    IsUpdate
        => /\ res.data = buf
           /\ \A i \in 1..Len(stack) :
                 HasEvent("field", i)
                    => IF stack[i].field.var /\ FieldSeen(i).es # Success
                       THEN /\ res.es = FieldSeen(i).es
                            /\ res.iter = FieldOffset(i)
                            /\ ~HasEvent("next", i)
                       ELSE /\ HasEvent("next", i)
                            /\ HasEvent("field", i + 1)
           /\ HasEvent("field", Len(stack) + 1)
                 => /\ res.es = Success
                    /\ res.iter = args.size
                    /\ res.iter >= FieldOffset(Len(stack))
                                      + FieldSeen(Len(stack)).used

\* the read back of a variable length id fails behind a sound sync field
C13_Witness ==
    /\ IsUpdate
    /\ stack = StackVar
    /\ HasEvent("field", 2)
    /\ ~HasEvent("next", 2)
    /\ res.es # Success

\* an update that ran through every layer of the fixed length stack
C13_WitnessFixed ==
    /\ IsUpdate
    /\ stack = StackFixed
    /\ HasEvent("field", Len(stack) + 1)
    /\ res.es = Success
    /\ res.iter = args.size

\* the innermost layer that handled its field in the last call
LastFieldLayer ==
    CHOOSE i \in 0..(Len(stack) + 1) :
        /\ i > 0 => HasEvent("field", i)
        /\ \A j \in (i + 1)..(Len(stack) + 1) : ~HasEvent("field", j)

\* C14: when the prefix read of a layer returns NotEnoughData, the iterator
\* stands at the first byte of that layer's field: the fields of the layers
\* outside it are consumed, no byte of its own field is.
C14_IterAtFieldStart ==
    (IsRead /\ res.es = NotEnoughData /\ LastFieldLayer \in 1..Len(stack))
        => res.iter = FieldOffset(LastFieldLayer)

\* the variable length id behind the sync field AB 07 has its first byte only
C14_Witness ==
    /\ IsRead /\ res.es = NotEnoughData
    /\ stack = StackVar
    /\ LastFieldLayer = 2
    /\ args.size = 3
    /\ res.iter = 2

\* the last layer that handled its field is a sync layer whose field was read
\* and differs from the constant
SyncMismatch ==
    /\ IsRead
    /\ LastFieldLayer \in 1..Len(stack)
    /\ stack[LastFieldLayer].kind = "sync"
    /\ FieldSeen(LastFieldLayer).es = Success
    /\ FieldSeen(LastFieldLayer).value # stack[LastFieldLayer].field.dflt

\* C15 (as claimed): after a sync mismatch the iterator is at the first byte of
\* the offending sync field, and after an unknown id it is at the id byte.
C15_IterAtOffendingField ==
    /\ SyncMismatch => res.iter = FieldOffset(LastFieldLayer)
    /\ (IsRead /\ res.es = InvalidMsgId) => res.iter = FieldOffset(LastFieldLayer)

\* C15 (amended): after a sync mismatch the iterator is just past the offending
\* sync field, which the read consumed before it was compared; after an
\* unknown id it is at the id byte.
C15_IterPastSyncField ==
    /\ SyncMismatch
          => /\ res.es = ProtocolError
             /\ res.iter = FieldOffset(LastFieldLayer)
                              + FieldSeen(LastFieldLayer).used
    /\ (IsRead /\ res.es = InvalidMsgId) => res.iter = FieldOffset(LastFieldLayer)

\* AB CE read by the fixed length stack: the iterator is two bytes on
C15_Witness ==
    /\ SyncMismatch
    /\ stack = StackFixed
    /\ res.es = ProtocolError
    /\ res.iter = 2

----------------------------------------------------------------------------
(* The state machine of a field object *)

\* longest byte sequence handed to a field object as received data
MaxFieldRecv == 2

\* the layer stack at rest while a field object is exercised
StackIdle ==
    /\ stack = StackFixed
    /\ buf = <<>>
    /\ sent = NoMsg
    /\ op = "init"
    /\ args = Args(0, NullPtr, DefaultFields, NoMsg, TRUE)
    /\ res = Call(<<>>, NullPtr, DefaultFields, TRUE)

\* {a:3, b:5, c:8}, sixteen bits
BitfieldABC ==
    BitfieldType(<<Member(3, 0, 5), Member(5, 0, 31), Member(8, 0, 255)>>, "none")

\* an enumeration of two bits packed with a counter of six
BitfieldEnumCounter ==
    BitfieldType(<<Member(2, 0, 3), Member(6, 0, 40)>>, "none")

\* two nibbles under a contents validator
BitfieldOrdered ==
    BitfieldType(<<Member(4, 0, 15), Member(4, 0, 9)>>, "ordered")

\* enum class { V0 = 0, V1 = 1, V3 = 3 } in one byte, no valid range configured
EnumPlain == EnumType({0, 1, 3}, 1, {})

\* the same enumeration with the valid range 0..3
EnumRanged == EnumType({0, 1, 3}, 1, {<<0, 3>>})

FieldTypes ==
    {BitfieldABC, BitfieldEnumCounter, BitfieldOrdered, EnumPlain, EnumRanged}

\* the values a member or an enum field is set to
MemberValues == {0, 2, 5, 17, 170}

FieldValues(t) ==
    IF t.kind = "bitfield"
    THEN [1..Len(t.members) -> MemberValues]
    ELSE {<<v>> : v \in MemberValues}

\* the default constructed value
FieldDefault(t) ==
    IF t.kind = "bitfield" THEN [i \in 1..Len(t.members) |-> 0] ELSE <<0>>

\* length() of the field object
FieldObjLength(t) == IF t.kind = "bitfield" THEN BitfieldLength(t) ELSE t.len

FieldInit ==
    /\ StackIdle
    /\ IfaceIdle
    /\ ProtIdle
    /\ CreateIdle
    /\ GuiIdle
    /\ fld \in FieldTypes
    /\ fval = FieldDefault(fld)
    /\ fbuf = <<>>
    /\ fsent = <<>>
    /\ fop = "init"
    /\ fres = [es |-> "none"]

\* field.value() = v
SetValue(v) ==
    /\ fop = "init"
    /\ fval' = v
    /\ fop' = "set"
    /\ fres' = [es |-> "none"]
    /\ UNCHANGED <<fld, fbuf, fsent, stackVars, ifaceVars, protVars, createVars, guiVars>>

\* field.write(iter, size) into an empty buffer
WriteField(size) ==
    /\ fop = "set"
    /\ LET w == IF fld.kind = "bitfield" THEN BitfieldWrite(fld, fval, size)
                ELSE EnumWrite(fld, fval, size)
       IN /\ fbuf' = w.bytes
          /\ fsent' = IF w.es = Success THEN <<fval>> ELSE <<>>
          /\ fres' = [es |-> w.es]
    /\ fop' = "write"
    /\ UNCHANGED <<fld, fval, stackVars, ifaceVars, protVars, createVars, guiVars>>

\* bytes arrive from the wire
ReceiveField(bytes) ==
    /\ fop \in {"init", "set"}
    /\ fbuf' = bytes
    /\ fsent' = <<>>
    /\ fop' = "receive"
    /\ fres' = [es |-> "none"]
    /\ UNCHANGED <<fld, fval, stackVars, ifaceVars, protVars, createVars, guiVars>>

\* field.read(iter, size) on the first size bytes of fbuf
ReadField(size) ==
    /\ fop \in {"write", "receive"}
    /\ LET r == IF fld.kind = "bitfield" THEN BitfieldRead(fld, fval, fbuf, size)
                ELSE EnumRead(fld, fval, fbuf, size)
       IN /\ fval' = r.value
          /\ fres' = [es |-> r.es]
    /\ fop' = "read"
    /\ UNCHANGED <<fld, fbuf, fsent, stackVars, ifaceVars, protVars, createVars, guiVars>>

\* field.valid()
ValidField ==
    /\ fop \in {"set", "read"}
    /\ fres' = [es |-> "none",
                valid |-> IF fld.kind = "bitfield" THEN BitfieldValid(fld, fval)
                          ELSE EnumValid(fld, fval)]
    /\ fop' = "valid"
    /\ UNCHANGED <<fld, fval, fbuf, fsent, stackVars, ifaceVars, protVars, createVars, guiVars>>

FieldNext ==
    \/ \E v \in FieldValues(fld) : SetValue(v)
    \/ \E size \in {FieldObjLength(fld) - 1, FieldObjLength(fld)} : WriteField(size)
    \/ \E bytes \in SeqsUpTo(WireBytes, MaxFieldRecv) : ReceiveField(bytes)
    \/ \E size \in 0..Len(fbuf) : ReadField(size)
    \/ ValidField

SpecField == FieldInit /\ [][FieldNext]_vars

----------------------------------------------------------------------------
(* Properties of the field objects *)

\* C17: a bitfield whose members' bit lengths fill whole bytes, written with
\* the member values v_i and read back from the bytes written, holds
\* v_i mod 2^(N_i) in every member: no member's bits reach another member.
C17_BitfieldRoundTrip ==
    (fop = "read" /\ fld.kind = "bitfield" /\ fsent # <<>>
         /\ fres.es = Success)
        => /\ BitOffset(fld, Len(fld.members) + 1) % 8 = 0
           /\ \A i \in 1..Len(fld.members) :
                 fval[i] = fsent[1][i] % (2 ^ fld.members[i].bits)

\* a value wider than its member was written next to members that are not zero
C17_Witness ==
    /\ fop = "read" /\ fld = BitfieldABC /\ fsent # <<>> /\ fres.es = Success
    /\ fsent[1] = <<170, 17, 5>>
    /\ fval = <<2, 17, 5>>

\* C18 (as claimed): {a:3, b:5, c:8} with a = 5, b = 17, c = AA encodes big
\* endian to the bytes AA 8A.
C18_EncodesAA8A ==
    (fop = "write" /\ fld = BitfieldABC /\ fval = <<5, 17, 170>>
         /\ fres.es = Success)
        => fbuf = <<170, 138>>

\* C18 (amended): the packed word (c<<8)|(b<<3)|a of a = 5, b = 17, c = AA is
\* AA8D, and the field encodes big endian to the bytes AA 8D.
C18_EncodesAA8D ==
    (fop = "write" /\ fld = BitfieldABC /\ fval = <<5, 17, 170>>
         /\ fres.es = Success)
        => /\ DecodeBE(fbuf) = 170 * (2 ^ 8) + 17 * (2 ^ 3) + 5
           /\ fbuf = <<170, 141>>

C18_Witness ==
    /\ fop = "write" /\ fld = BitfieldABC /\ fval = <<5, 17, 170>>
    /\ fres.es = Success
    /\ Len(fbuf) = 2

\* C19: valid() of a bitfield is true exactly when every member is valid and
\* the contents validator, when one is configured, accepts the value.
C19_BitfieldValid ==
    (fop = "valid" /\ fld.kind = "bitfield")
        => (fres.valid
               <=> /\ \A i \in 1..Len(fld.members) :
                         fld.members[i].lo <= fval[i] /\ fval[i] <= fld.members[i].hi
                   /\ fld.validator # "none" => ContentsValidator(fld.validator, fval))

\* every member is valid and the contents validator refuses the value
C19_Witness ==
    /\ fop = "valid" /\ fld = BitfieldOrdered
    /\ \A i \in 1..Len(fld.members) :
          fld.members[i].lo <= fval[i] /\ fval[i] <= fld.members[i].hi
    /\ ~ContentsValidator(fld.validator, fval)
    /\ ~fres.valid

\* C20 (as claimed): valid() of an enum field is true if and only if the
\* underlying integer is a declared enumerator.
C20_ValidIffDeclared ==
    (fop = "valid" /\ fld.kind = "enum")
        => (fres.valid <=> fval[1] \in fld.enumerators)

\* C20 (amended): valid() of an enum field is true if and only if the
\* underlying integer lies in a valid range configured for the field, every
\* value when no range is configured; the enumerators are not consulted.
C20_ValidIffInRange ==
    (fop = "valid" /\ fld.kind = "enum")
        => (fres.valid
               <=> \/ fld.ranges = {}
                   \/ \E r \in fld.ranges : r[1] <= fval[1] /\ fval[1] <= r[2])

\* the value 2 lies in the valid range and names no enumerator
C20_Witness ==
    /\ fop = "valid" /\ fld = EnumRanged
    /\ fval = <<2>>
    /\ fval[1] \notin fld.enumerators
    /\ fres.valid

----------------------------------------------------------------------------
(* The state machine of a message behind its interface *)

\* the options an interface may be given besides the mandatory Endian
InterfaceOptions ==
    <<"MsgIdType", "IdInfoInterface", "ReadIterator", "WriteIterator", "Handler",
      "ValidCheckInterface", "LengthInfoInterface", "RefreshInterface",
      "NoVirtualDestructor">>

Reverse(seq) == [k \in 1..Len(seq) |-> seq[Len(seq) + 1 - k]]

\* the chosen options in the order of InterfaceOptions
Chosen(S) ==
    LET names == SelectSeq(InterfaceOptions, LAMBDA n : n \in S)
    IN [k \in 1..Len(names) |-> Opt(names[k])]

\* an EmptyOption after every option
RECURSIVE Padded(_)
Padded(options) ==
    IF options = <<>> THEN <<>>
    ELSE <<Head(options), Opt("EmptyOption")>> \o Padded(Tail(options))

\* three ways of writing the same options: flat with Endian first; reversed
\* and mixed with EmptyOption with Endian last; partly bundled in nested tuples
Arrangements(S) ==
    LET asc   == Chosen(S)
        half  == (Len(asc) + 1) \div 2
        front == SubSeq(asc, 1, half)
        back  == SubSeq(asc, half + 1, Len(asc))
    IN {<<Opt("Endian")>> \o asc,
        Padded(Reverse(asc)) \o <<Opt("Endian")>>,
        <<Bundle(<<Bundle(front), Opt("EmptyOption")>>)>> \o Reverse(back)
            \o <<Bundle(<<Opt("Endian")>>)>>}

OptionLists == UNION {Arrangements(S) : S \in SUBSET Range(InterfaceOptions)}

\* the flags field of a concrete message
MsgFlags == BitfieldType(<<Member(4, 0, 15), Member(4, 0, 15)>>, "ordered")

\* the concrete messages: one that overrides none of the defaulted virtual
\* functions, one with a bitfield, one with a counted list
ConcreteMsg(class) ==
    [class |-> class, body |-> NewMsg(IF class = "counted" THEN 2 ELSE 1),
     flags |-> <<0, 0>>, count |-> 0, list |-> <<>>]

ConcreteClasses == {"plain", "flags", "counted"}

\* the bytes a message is read from
IfaceData == <<0, 7>>

\* getIdImpl of a concrete message
ConcreteGetIdImpl(m) == m.body.id

\* readImpl of a concrete message that overrides it
ConcreteReadImpl(m, data, iter, size) ==
    LET r == MsgRead(m.body, data, iter, size)
    IN [es |-> r.es, iter |-> iter + r.used, body |-> r.msg]

\* writeImpl of a concrete message that overrides it
ConcreteWriteImpl(m, iter, size) ==
    IF size < MsgLength(m.body)
    THEN [es |-> BufferOverflow, iter |-> iter, bytes |-> <<>>]
    ELSE [es |-> Success, iter |-> iter + MsgLength(m.body), bytes |-> MsgBytes(m.body)]

\* validImpl of a concrete message that overrides it
ConcreteValidImpl(m) == BitfieldValid(MsgFlags, m.flags)

\* lengthImpl of a concrete message that overrides it
ConcreteLengthImpl(m) == MsgLength(m.body)

\* refreshImpl of a concrete message that overrides it: the bitfield is
\* refreshed, the count is set from the number of elements
ConcreteRefreshImpl(m) ==
    IF m.class = "flags"
    THEN LET r == BitfieldRefresh(MsgFlags, m.flags)
         IN [refreshed |-> r.refreshed, members |-> r.members,
             msg |-> [m EXCEPT !.flags = r.value]]
    ELSE [refreshed |-> m.count # Len(m.list), members |-> <<>>,
          msg |-> [m EXCEPT !.count = Len(m.list)]]

\* MessageInterfaceReadOnlyBase::doRead
doRead(iter, size) == [es |-> NotSupported, iter |-> iter]

\* MessageInterfaceWriteOnlyBase::doWrite
doWrite(iter, size) == [es |-> NotSupported, iter |-> iter, bytes |-> <<>>]

\* the default readImpl reporting success and consuming the input
DefaultReadImpl_Consume(bases, iter, size) == [es |-> Success, iter |-> iter + size]

\* readImpl as the base classes define it
DefaultReadImpl(bases, iter, size) ==
    IF "MessageInterfaceReadOnlyBase" \in Range(bases) THEN doRead(iter, size)
    ELSE [es |-> NotSupported, iter |-> iter]

\* writeImpl as the base classes define it
DefaultWriteImpl(bases, iter, size) ==
    IF "MessageInterfaceWriteOnlyBase" \in Range(bases) THEN doWrite(iter, size)
    ELSE [es |-> NotSupported, iter |-> iter, bytes |-> <<>>]

\* MessageInterfaceValidBase::doValid
doValid == TRUE

\* MessageInterfaceLengthBase::doLength
doLength == [gassert |-> TRUE, length |-> 0]

\* the default refreshImpl reporting a change
DefaultRefreshImpl_True == TRUE

\* MessageInterfaceRefreshBase::refreshImpl
DefaultRefreshImpl == FALSE

\* the concrete message overrides the defaulted virtual functions
Overrides(m) == m.class # "plain"

Can(member) == member \in Capabilities(ibases)

IfaceInit ==
    /\ StackIdle
    /\ FieldIdle
    /\ ProtIdle
    /\ CreateIdle
    /\ GuiIdle
    /\ iopts \in OptionLists
    /\ ibases = MessageInterfaceBuilder(iopts)
    /\ imsg \in {ConcreteMsg(c) : c \in ConcreteClasses}
    /\ iop = "init"
    /\ ires = [es |-> "none"]

\* the concrete message's fields are assigned
SetMsgFields(flags, list) ==
    /\ iop = "init"
    /\ Overrides(imsg)
    /\ imsg' = IF imsg.class = "flags" THEN [imsg EXCEPT !.flags = flags]
               ELSE [imsg EXCEPT !.list = list]
    /\ imsg' # imsg
    /\ iop' = "set"
    /\ ires' = [es |-> "none"]
    /\ UNCHANGED <<iopts, ibases, stackVars, fieldVars, protVars, createVars, guiVars>>

\* msg.read(iter, size)
IfaceRead(size) ==
    /\ iop = "init"
    /\ Can("read")
    /\ LET r == IF Overrides(imsg) THEN ConcreteReadImpl(imsg, IfaceData, 0, size)
                ELSE DefaultReadImpl(ibases, 0, size)
       IN /\ ires' = [es |-> r.es, iter |-> r.iter, size |-> size]
          /\ imsg' = IF Overrides(imsg) THEN [imsg EXCEPT !.body = r.body] ELSE imsg
    /\ iop' = "read"
    /\ UNCHANGED <<iopts, ibases, stackVars, fieldVars, protVars, createVars, guiVars>>

\* msg.write(iter, size)
IfaceWrite(size) ==
    /\ iop = "init"
    /\ Can("write")
    /\ LET w == IF Overrides(imsg) THEN ConcreteWriteImpl(imsg, 0, size)
                ELSE DefaultWriteImpl(ibases, 0, size)
       IN ires' = [es |-> w.es, iter |-> w.iter, size |-> size, bytes |-> w.bytes]
    /\ iop' = "write"
    /\ UNCHANGED <<iopts, ibases, imsg, stackVars, fieldVars, protVars, createVars, guiVars>>

\* msg.getId()
IfaceGetId ==
    /\ iop = "init"
    /\ Can("getId")
    /\ ires' = [es |-> "none", id |-> ConcreteGetIdImpl(imsg)]
    /\ iop' = "getId"
    /\ UNCHANGED <<iopts, ibases, imsg, stackVars, fieldVars, protVars, createVars, guiVars>>

\* msg.dispatch(handler)
IfaceDispatch ==
    /\ iop = "init"
    /\ Can("dispatch")
    /\ ires' = [es |-> "none", handled |-> imsg.body.id]
    /\ iop' = "dispatch"
    /\ UNCHANGED <<iopts, ibases, imsg, stackVars, fieldVars, protVars, createVars, guiVars>>

\* msg.valid()
IfaceValid ==
    /\ iop \in {"init", "set"}
    /\ Can("valid")
    /\ ires' = [es |-> "none",
                valid |-> IF Overrides(imsg) THEN ConcreteValidImpl(imsg) ELSE doValid]
    /\ iop' = "valid"
    /\ UNCHANGED <<iopts, ibases, imsg, stackVars, fieldVars, protVars, createVars, guiVars>>

\* msg.length()
IfaceLength ==
    /\ iop = "init"
    /\ Can("length")
    /\ ires' = IF Overrides(imsg)
               THEN [es |-> "none", gassert |-> FALSE, length |-> ConcreteLengthImpl(imsg)]
               ELSE [es |-> "none", gassert |-> doLength.gassert, length |-> doLength.length]
    /\ iop' = "length"
    /\ UNCHANGED <<iopts, ibases, imsg, stackVars, fieldVars, protVars, createVars, guiVars>>

\* msg.refresh(), at most twice in a row
IfaceRefresh ==
    /\ iop \in {"init", "set", "refresh"}
    /\ iop = "refresh" => ires.n < 2
    /\ Can("refresh")
    /\ LET n == IF iop = "refresh" THEN ires.n + 1 ELSE 1
           first == IF iop = "refresh" THEN ires.refreshed ELSE FALSE
       IN IF Overrides(imsg)
          THEN LET r == ConcreteRefreshImpl(imsg)
               IN /\ ires' = [es |-> "none", n |-> n, first |-> first,
                              refreshed |-> r.refreshed, members |-> r.members]
                  /\ imsg' = r.msg
          ELSE /\ ires' = [es |-> "none", n |-> n, first |-> first,
                           refreshed |-> DefaultRefreshImpl, members |-> <<>>]
               /\ imsg' = imsg
    /\ iop' = "refresh"
    /\ UNCHANGED <<iopts, ibases, stackVars, fieldVars, protVars, createVars, guiVars>>

IfaceNext ==
    \/ \E flags \in {<<0, 0>>, <<5, 2>>, <<2, 5>>}, list \in {<<>>, <<7>>, <<7, 7>>} :
           SetMsgFields(flags, list)
    \/ \E size \in 0..Len(IfaceData) : IfaceRead(size)
    \/ \E size \in 0..Len(IfaceData) : IfaceWrite(size)
    \/ IfaceGetId
    \/ IfaceDispatch
    \/ IfaceValid
    \/ IfaceLength
    \/ IfaceRefresh

SpecIface == IfaceInit /\ [][IfaceNext]_vars

----------------------------------------------------------------------------
(* Claims about the message interface *)

\* the names of the options written in the list, inside tuples included
RECURSIVE OptionNames(_)
OptionNames(options) ==
    UNION {IF o.opt = "tuple" THEN OptionNames(o.of) ELSE {o.opt} : o \in Range(options)}

IsSet(name) == name \in OptionNames(iopts)

IsBundled == \E k \in 1..Len(iopts) : iopts[k].opt = "tuple"

\* C22: whatever the order of the options, bundled in tuples or mixed with
\* EmptyOption, the interface can read iff ReadIterator is set, write iff
\* WriteIterator, dispatch iff Handler, valid iff ValidCheckInterface, length
\* iff LengthInfoInterface, refresh iff RefreshInterface
C22_CapabilityIffOption ==
    iopts # <<>> =>
        /\ Can("read") <=> IsSet("ReadIterator")
        /\ Can("write") <=> IsSet("WriteIterator")
        /\ Can("dispatch") <=> IsSet("Handler")
        /\ Can("valid") <=> IsSet("ValidCheckInterface")
        /\ Can("length") <=> IsSet("LengthInfoInterface")
        /\ Can("refresh") <=> IsSet("RefreshInterface")

\* a read through an interface whose options are bundled in tuples next to an
\* EmptyOption, with refresh and without write
C22_Witness ==
    /\ iop = "read"
    /\ IsBundled
    /\ IsSet("EmptyOption")
    /\ IsSet("RefreshInterface")
    /\ ~IsSet("WriteIterator")
    /\ ~Can("write")
    /\ Can("refresh")

HasGetId ==
    /\ Can("getId")
    /\ "getIdImpl" \in Virtuals(ibases)
    /\ iop = "getId" => ires.id = imsg.body.id

\* C23 as stated: every interface built with IdInfoInterface has the virtual
\* getId() returning the id of the message
C23_GetIdWithIdInfo == IsSet("IdInfoInterface") => HasGetId

\* C23: every interface built with MsgIdType and IdInfoInterface has the
\* virtual getId() returning the id of the message
C23_GetIdWithIdTypeAndIdInfo ==
    (IsSet("IdInfoInterface") /\ IsSet("MsgIdType")) => HasGetId

\* getId() called on a message of the second kind through an interface built
\* with both options
C23_Witness ==
    /\ iop = "getId"
    /\ IsSet("IdInfoInterface")
    /\ IsSet("MsgIdType")
    /\ imsg.body.id = 2
    /\ ires.id = 2

HasVirtualDestructor == "destructor" \in Virtuals(ibases)

\* C24: the destructor of the interface is virtual iff NoVirtualDestructor is
\* not set and the interface has at least one virtual member function, and
\* never when NoVirtualDestructor is set
C24_VirtualDestructorIffVirtuals ==
    iopts # <<>> =>
        /\ HasVirtualDestructor <=>
               (~IsSet("NoVirtualDestructor") /\ Virtuals(ibases) \ {"destructor"} # {})
        /\ IsSet("NoVirtualDestructor") => ~HasVirtualDestructor

\* C25: read (write) through an interface with the read (write) capability
\* whose concrete message does not override readImpl (writeImpl) returns
\* NotSupported and leaves the iterator where it was
C25_NotSupportedWithoutOverride ==
    /\ (iop = "read" /\ ~Overrides(imsg)) =>
           (ires.es = NotSupported /\ ires.iter = 0)
    /\ (iop = "write" /\ ~Overrides(imsg)) =>
           (ires.es = NotSupported /\ ires.iter = 0 /\ ires.bytes = <<>>)

\* read of two available bytes through a read only interface of a message
\* that overrides nothing
C25_Witness ==
    /\ iop = "read"
    /\ ~Overrides(imsg)
    /\ "MessageInterfaceReadOnlyBase" \in Range(ibases)
    /\ ires.size = 2
    /\ ires.es = NotSupported

C21_WitnessBitfield ==
    /\ iop = "refresh"
    /\ imsg.class = "flags"
    /\ imsg.flags = <<5, 2>>
    /\ ires.members = <<FALSE, FALSE>>
    /\ ~ires.refreshed

----------------------------------------------------------------------------
(* Protocol::readImpl of the demo plugin: src/protocol/demo/plugin/Protocol.cpp *)

\* the calls of readImpl a behaviour makes
MaxCalls == 2

\* remainingSizeCalc(iter): the bytes of m_data from iter on
remainingSizeCalc(data, iter) == Len(data) - iter

\* m_protStack.readFieldsCached<0>(fields, msgPtr, readIterCur, remaining) with
\* default constructed fields
ProtReadFieldsCached(data, beg, ao) ==
    LayerRead(1, 1, [Call(data, NullPtr, DefaultFields, ao) EXCEPT !.iter = beg],
              remainingSizeCalc(data, beg))

\* m_protStack.read(msgPtr, readIterCur, remaining)
ProtRead(data, beg, ao) ==
    LayerRead(1, 0, [Call(data, NullPtr, DefaultFields, ao) EXCEPT !.iter = beg],
              remainingSizeCalc(data, beg))

\* the statuses after which the inner loop tries the next byte
Retried == {ProtocolError, InvalidMsgId}

\* the inner loop giving up after the first retry
RECURSIVE Resync(_, _, _, _, _)
Resync_Once(data, beg, cur, retries, ao) ==
    IF Len(data) <= beg + 1
    THEN [beg |-> beg + 1, cur |-> cur, retries |-> retries, exhausted |-> TRUE]
    ELSE LET r == ProtRead(data, beg + 1, ao)
         IN [beg |-> beg + 1, cur |-> r.iter, exhausted |-> FALSE,
             retries |-> Append(retries, [start |-> beg + 1, es |-> r.es])]

\* the inner loop reading again where the failed read started
Resync_NoAdvance(data, beg, cur, retries, ao) ==
    [beg |-> beg, cur |-> beg, retries |-> retries, exhausted |-> FALSE]

\* the inner loop: ++readIterBeg, stop at the end of m_data, else read again at
\* readIterBeg and stop unless the status is ProtocolError or InvalidMsgId
Resync(data, beg, cur, retries, ao) ==
    IF Len(data) <= beg + 1
    THEN [beg |-> beg + 1, cur |-> cur, retries |-> retries, exhausted |-> TRUE]
    ELSE LET r  == ProtRead(data, beg + 1, ao)
             rs == Append(retries, [start |-> beg + 1, es |-> r.es])
         IN IF r.es \notin Retried
            THEN [beg |-> beg + 1, cur |-> r.iter, retries |-> rs,
                  exhausted |-> FALSE]
            ELSE Resync(data, beg + 1, r.iter, rs, ao)

\* a message info: the application message, the transport message (the fields
\* of the frame), the raw data message; at and es record where the frame read
\* started and how it ended
MessageInfo(app, transport, raw, at, es) ==
    [app |-> app, transport |-> transport, raw |-> raw, at |-> at, es |-> es]

\* the raw data running to the end of m_data
RawData_ToEnd(data, beg, cur) == SubSeq(data, beg + 1, Len(data))

\* setRawDataMsgGuard: the bytes from the readIterBeg the iteration started
\* with up to readIterCur
RawData(data, beg, cur) == SubSeq(data, beg + 1, cur)

\* one iteration of the outer loop from readIterBeg = beg: whether it leaves
\* the loop, the infos it adds, the readIterBeg it leaves behind
OuterIteration(data, beg, ao) ==
    LET r   == ProtReadFieldsCached(data, beg, ao)
        es  == r.es
        cur == r.iter
        it(exit, infos, newBeg, retries, exhausted, asserted) ==
            [exit |-> exit, infos |-> infos, beg |-> newBeg, start |-> beg,
             es |-> es, cur |-> cur, retries |-> retries,
             exhausted |-> exhausted, asserted |-> asserted]
    IN IF es = NotEnoughData
       THEN it(TRUE, <<>>, beg, <<>>, FALSE, FALSE)
       ELSE IF es = Success
       THEN it(FALSE,
               <<MessageInfo(r.msgPtr, <<r.allFields>>, RawData(data, beg, cur),
                             beg, es)>>,
               cur, <<>>, FALSE, r.msgPtr = NoMsg)
       ELSE IF es = InvalidMsgData
       THEN it(FALSE,
               <<MessageInfo(NoMsg, <<r.allFields>>, RawData(data, beg, cur),
                             beg, es)>>,
               cur, <<>>, FALSE, FALSE)
       ELSE IF es = MsgAllocFailure
       THEN it(TRUE, <<>>, cur, <<>>, FALSE, TRUE)
       ELSE LET rs == Resync(data, beg, cur, <<>>, ao)
            IN [it(FALSE,
                   <<MessageInfo(NoMsg, NoMsg, RawData(data, beg, rs.cur), beg, es)>>,
                   rs.cur, rs.retries, rs.exhausted, FALSE)
                EXCEPT !.cur = rs.cur]

\* eraseGuard erasing the bytes in front of readIterBeg
EraseGuard_Consumed(data, beg) == SubSeq(data, beg + 1, Len(data))

\* eraseGuard: dist = remainingSizeCalc(readIterBeg), then
\* m_data.erase(m_data.begin(), m_data.begin() + dist)
EraseGuard(data, beg) ==
    LET dist == remainingSizeCalc(data, beg)
    IN SubSeq(data, dist + 1, Len(data))

\* the sync prefix of the stack on the wire: AB CD, or AB 07 when its length
\* is variable
SyncBytes == FieldBytes(stack[1].field, stack[1].field.dflt)

\* the size field in front of a frame body, where the stack has a size layer
SizeBytes(body) ==
    IF \E i \in 1..Len(stack) : stack[i].kind = "size"
    THEN <<Len(body)>> ELSE <<>>

\* the frame of a body (id and payload) and the frame cut after n body bytes
Framed(body) == SyncBytes \o SizeBytes(body) \o body
FramedUpTo(body, n) == SyncBytes \o SizeBytes(body) \o SubSeq(body, 1, n)

\* frames of the stack, and pieces of them
PingFrame == Framed(<<1, 0, 7>>)
PingHead == FramedUpTo(<<1, 0, 7>>, 1)
PingTail == <<0, 7>>
ChoiceFrame == Framed(<<3, 1>>)
BadChoiceFrame == Framed(<<3, 7>>)
BadIdFrame == Framed(<<7>>)
Garbage == <<7>>

Pieces ==
    {PingFrame, PingHead, PingTail, ChoiceFrame, BadChoiceFrame, BadIdFrame,
     Garbage, <<1, 7>>, <<171>>}

\* what one call may receive: a piece, or a piece behind garbage or behind a
\* frame
ProtInputs ==
    Pieces
    \cup {Garbage \o piece :
            piece \in {PingFrame, PingHead, BadIdFrame, ChoiceFrame, <<1, 7>>}}
    \cup {PingFrame \o piece :
            piece \in {PingFrame, BadChoiceFrame, PingHead, Garbage}}

\* the calls: what arrives and whether the allocation of a message succeeds
ProtCalls ==
    {<<bytes, TRUE>> : bytes \in ProtInputs} \cup {<<bytes, FALSE>> : bytes \in Pieces}

\* m_protStack is one of the two stacks; nothing else of the stack state
\* machine is in use
ProtInit ==
    /\ stack \in Stacks \cup {StackSized}
    /\ buf = <<>>
    /\ sent = NoMsg
    /\ op = "init"
    /\ args = Args(0, NullPtr, DefaultFields, NoMsg, TRUE)
    /\ res = Call(<<>>, NullPtr, DefaultFields, TRUE)
    /\ FieldIdle
    /\ IfaceIdle
    /\ CreateIdle
    /\ GuiIdle
    /\ m_data = <<>>
    /\ readIterBeg = 0
    /\ allInfos = <<>>
    /\ ppc = "idle"
    /\ piter = [es |-> "none"]
    /\ pcall = [n |-> 0, allocOk |-> TRUE, incoming |-> <<>>, full |-> <<>>,
                carried |-> <<>>, rest |-> <<>>]

\* readImpl(dataInfoPtr) up to the outer loop: the received bytes are copied
\* to the back of m_data
ReadImplBegin(bytes, ao) ==
    /\ ppc = "idle"
    /\ cpc = "idle"
    /\ pcall.n < MaxCalls
    /\ m_data' = m_data \o bytes
    /\ readIterBeg' = 0
    /\ allInfos' = <<>>
    /\ ppc' = "loop"
    /\ piter' = [es |-> "none"]
    /\ pcall' = [n |-> pcall.n + 1, allocOk |-> ao, incoming |-> bytes,
                 full |-> m_data \o bytes, carried |-> pcall.rest, rest |-> <<>>]
    /\ UNCHANGED <<stackVars, fieldVars, ifaceVars, createVars, guiVars>>

\* one iteration of the outer loop, with the scope guards that run at its end
ReadImplIteration ==
    /\ ppc = "loop"
    /\ piter' = OuterIteration(m_data, readIterBeg, pcall.allocOk)
    /\ allInfos' = allInfos \o piter'.infos
    /\ readIterBeg' = piter'.beg
    /\ ppc' = IF piter'.exit THEN "return" ELSE "loop"
    /\ UNCHANGED <<m_data, pcall, stackVars, fieldVars, ifaceVars, createVars, guiVars>>

\* return allInfos: eraseGuard runs
ReadImplReturn ==
    /\ ppc = "return"
    /\ m_data' = EraseGuard(m_data, readIterBeg)
    /\ ppc' = "idle"
    /\ pcall' = [pcall EXCEPT !.rest = SubSeq(m_data, readIterBeg + 1, Len(m_data))]
    /\ UNCHANGED <<readIterBeg, allInfos, piter, stackVars, fieldVars, ifaceVars, createVars, guiVars>>

\* MsgId_NumOfMessages: the ids of the dialect run from 0 without a gap
MsgId_NumOfMessages == Cardinality(KnownIds)

\* m_protStack.createMsg(id)
CreateMsg(id) == IF id \in KnownIds THEN <<NewMsg(id)>> ELSE NoMsg

\* data.max_size()
VectorMaxSize == SizeTMod - 1

\* m_protStack.writeFieldsCached<0>(fields, *msgPtr, writeIter, data.max_size())
\* with default constructed fields and writeIter = std::back_inserter(data)
CreateWrite(msg) ==
    LayerWrite(1, 1,
               [Call(<<>>, NullPtr, DefaultFields, TRUE) EXCEPT !.pushBack = TRUE],
               msg, VectorMaxSize)

\* the update pass left out
CreateUpdate_Skipped(data) ==
    [Call(data, NullPtr, DefaultFields, TRUE) EXCEPT !.es = UpdateRequired]

\* m_protStack.update(updateIter, data.size()) with updateIter = &data[0]
CreateUpdate(data) ==
    LayerUpdate(1, 0, Call(data, NullPtr, DefaultFields, TRUE), Len(data))

\* rawDataMsgPtr->read(rawDataReadIter, data.size()): the raw data message
\* takes all the bytes
RawDataMsgRead(data) == [es |-> Success, raw |-> data]

\* the body of the loop of createAllMessagesImpl for idx: the message, the
\* status of the write, whether the update pass ran, the status asserted to
\* be Success, the fields and the bytes behind the transport and the raw data
\* message, and the info pushed to allInfos
CreateIteration(idx) ==
    LET msgPtr  == CreateMsg(idx)
        w       == CreateWrite(msgPtr[1])
        updated == w.es = UpdateRequired
        u       == CreateUpdate(w.data)
        es      == IF updated THEN u.es ELSE w.es
        data    == IF updated THEN u.data ELSE w.data
        fields  == w.allFields
        rd      == RawDataMsgRead(data)
    IN [idx |-> idx, writeEs |-> w.es, updated |-> updated, es |-> es,
        fields |-> fields, data |-> data,
        updateLog |-> IF updated THEN u.log ELSE <<>>,
        asserted |-> msgPtr = NoMsg \/ es # Success \/ rd.es # Success,
        info |-> MessageInfo(msgPtr, <<fields>>, rd.raw, idx, es)]

\* createAllMessagesImpl() up to the loop; it may be called between any two
\* calls of readImpl, and as it writes nothing that readImpl reads, the
\* behaviours end with it
CreateAllBegin ==
    /\ ppc = "idle"
    /\ cpc = "idle"
    /\ cpc' = "loop"
    /\ cidx' = 0
    /\ createInfos' = <<>>
    /\ clast' = [es |-> "none"]
    /\ UNCHANGED <<stackVars, fieldVars, ifaceVars, protVars, guiVars>>

\* one pass through the body of the loop
CreateAllIteration ==
    /\ cpc = "loop"
    /\ cidx < MsgId_NumOfMessages
    /\ clast' = CreateIteration(cidx)
    /\ createInfos' = Append(createInfos, clast'.info)
    /\ cidx' = cidx + 1
    /\ UNCHANGED <<cpc, stackVars, fieldVars, ifaceVars, protVars, guiVars>>

\* the loop ends: return allInfos
CreateAllReturn ==
    /\ cpc = "loop"
    /\ cidx >= MsgId_NumOfMessages
    /\ cpc' = "done"
    /\ UNCHANGED <<createInfos, cidx, clast, stackVars, fieldVars, ifaceVars,
                   protVars, guiVars>>

ProtNext ==
    \/ \E call \in ProtCalls : ReadImplBegin(call[1], call[2])
    \/ ReadImplIteration
    \/ ReadImplReturn
    \/ CreateAllBegin
    \/ CreateAllIteration
    \/ CreateAllReturn

SpecProt == ProtInit /\ [][ProtNext]_vars


----------------------------------------------------------------------------
(* Claims about Protocol::readImpl *)

\* the last iteration of the outer loop ran the inner loop
Resynced == ppc # "idle" /\ piter.es \in Retried

LastRetry == piter.retries[Len(piter.retries)]

\* C26: after a frame read that fails with ProtocolError or InvalidMsgId the
\* retries start one byte after one another from the byte behind the failed
\* frame's start, each is the stack read at that very position, every retry but
\* the last ends with ProtocolError or InvalidMsgId, and the loop stops at the
\* first retry with another status or when no byte is left to start at
C26_ResyncByteByByte ==
    Resynced =>
        /\ \A k \in 1..Len(piter.retries) :
               /\ piter.retries[k].start = piter.start + k
               /\ piter.retries[k].es =
                      ProtRead(m_data, piter.start + k, pcall.allocOk).es
        /\ \A k \in 1..(Len(piter.retries) - 1) : piter.retries[k].es \in Retried
        /\ ~piter.exhausted =>
               (piter.retries # <<>> /\ LastRetry.es \notin Retried)
        /\ piter.exhausted =>
               /\ piter.start + Len(piter.retries) + 1 >= Len(m_data)
               /\ \A k \in 1..Len(piter.retries) : piter.retries[k].es \in Retried

\* garbage, then a frame with an unknown id: the retries end with InvalidMsgId,
\* ProtocolError and at last NotEnoughData
C26_Witness ==
    /\ Resynced
    /\ Len(piter.retries) = 3
    /\ piter.retries[1].es = InvalidMsgId
    /\ piter.retries[2].es = ProtocolError
    /\ LastRetry.es = NotEnoughData
    /\ ~piter.exhausted

\* the retries run into the end of the buffered data
C26_WitnessExhausted ==
    /\ Resynced
    /\ piter.exhausted
    /\ piter.retries # <<>>

\* the call has returned
Returned == ppc = "idle" /\ pcall.n > 0

\* C27: when m_data is a garbage byte directly followed by a complete valid
\* frame, the call reports the garbage with only the garbage byte as raw data
\* and then the frame as an info of its own with the decoded message
C27_FrameAfterGarbage ==
    \A frame \in {PingFrame, ChoiceFrame} :
        (Returned /\ pcall.allocOk /\ pcall.full = Garbage \o frame) =>
            /\ Len(allInfos) = 2
            /\ allInfos[1].app = NoMsg
            /\ allInfos[1].raw = Garbage
            /\ allInfos[2].app # NoMsg
            /\ allInfos[2].raw = frame

\* C28: after a call m_data holds exactly the bytes behind the last byte an
\* info consumed, in order; and a frame whose first bytes were left over by the
\* call before is decoded once the call has received the rest of it
C28_UnconsumedKept ==
    Returned =>
        /\ m_data = SubSeq(pcall.full, readIterBeg + 1, Len(pcall.full))
        /\ (pcall.allocOk /\ pcall.carried = PingHead /\ pcall.incoming = PingTail) =>
               /\ Len(allInfos) = 1
               /\ allInfos[1].app = <<[id |-> 1, fields |-> <<7>>]>>

\* the frame read of the last iteration ended with status es
Iterated(es) == ppc # "idle" /\ piter.es = es

\* C29: an iteration whose frame read succeeds adds an info with the message,
\* the transport message of the cached fields and the bytes of exactly that
\* frame; on InvalidMsgData the info has the transport message and the raw data
\* but no message; on the other errors raw data only; on NotEnoughData and
\* MsgAllocFailure nothing is added and the loop is left
C29_InfoByStatus ==
    /\ \A k \in 1..Len(allInfos) :
           LET info == allInfos[k]
               r == ProtReadFieldsCached(pcall.full, info.at, pcall.allocOk)
           IN /\ info.es = r.es
              /\ info.es \notin {NotEnoughData, MsgAllocFailure}
              /\ info.raw # <<>>
              /\ info.es = Success =>
                     /\ info.app = r.msgPtr /\ info.app # NoMsg
                     /\ info.transport = <<r.allFields>>
                     /\ info.raw = SubSeq(pcall.full, info.at + 1, r.iter)
              /\ info.es = InvalidMsgData =>
                     /\ info.app = NoMsg
                     /\ info.transport = <<r.allFields>>
              /\ info.es \notin {Success, InvalidMsgData} =>
                     /\ info.app = NoMsg
                     /\ info.transport = NoMsg
    /\ (ppc # "idle" /\ piter.es # "none") =>
           /\ Len(piter.infos) = (IF piter.es \in {NotEnoughData, MsgAllocFailure}
                                  THEN 0 ELSE 1)
           /\ piter.exit <=> piter.es \in {NotEnoughData, MsgAllocFailure}
           /\ piter.exit <=> ppc = "return"

\* a Ping, then a Choice with an unknown key, then a frame with an unknown id
\* have been reported
C29_Witness ==
    /\ Len(allInfos) = 3
    /\ allInfos[1].es = Success
    /\ allInfos[1].raw = PingFrame
    /\ allInfos[2].es = InvalidMsgData
    /\ allInfos[2].transport # NoMsg
    /\ allInfos[3].es = InvalidMsgId
    /\ allInfos[3].transport = NoMsg

\* the allocation of the message failed: nothing was added, the loop was left
C29_WitnessAllocFailure ==
    /\ Iterated(MsgAllocFailure)
    /\ ppc = "return"
    /\ allInfos = <<>>

\* an iteration of the outer loop leaves the loop or moves readIterBeg forward
IterationProgress ==
    ReadImplIteration => (ppc' = "return" \/ readIterBeg' > readIterBeg)

\* C30: readIterBeg stays inside m_data and every iteration of the outer loop
\* leaves the loop or leaves readIterBeg further into m_data than it found it,
\* so a call makes at most Len(m_data) + 1 iterations
C30_Terminates ==
    /\ [](readIterBeg \in 0..Len(m_data))
    /\ [][IterationProgress]_vars

\* the third iteration of a call has moved readIterBeg forward for the third
\* time
C30_Witness ==
    /\ ppc = "loop"
    /\ Len(allInfos) = 3
    /\ piter.start > 0
    /\ readIterBeg > piter.start
    /\ readIterBeg < Len(m_data)

----------------------------------------------------------------------------
(* Claims about Protocol::createAllMessagesImpl *)

\* the loop of createAllMessagesImpl has run at least once
Created == cpc # "idle" /\ clast.es # "none"

\* the info has its three messages
InfoComplete(info) ==
    /\ info.app # NoMsg
    /\ info.transport # NoMsg
    /\ info.raw # NoMsg

\* C31: createAllMessagesImpl yields one message info per message id
\* 0 .. NumOfMessages-1 in ascending order of the ids, each with its
\* application, transport and raw data message; a write through the back
\* inserter that returns UpdateRequired is followed by the update pass over
\* the buffer it produced, and the status the iteration ends with is Success
C31_OneInfoPerId ==
    /\ cpc # "idle" => Len(createInfos) = cidx
    /\ cpc = "done" => Len(createInfos) = MsgId_NumOfMessages
    /\ \A k \in 1..Len(createInfos) :
          /\ InfoComplete(createInfos[k])
          /\ createInfos[k].app[1].id = k - 1
    /\ Created =>
          /\ clast.writeEs = UpdateRequired =>
                clast.updated /\ clast.updateLog # <<>>
          /\ clast.es = Success
          /\ ~clast.asserted

\* the call has returned the whole list, the last write having asked for the
\* update pass
C31_Witness ==
    /\ cpc = "done"
    /\ Len(createInfos) = MsgId_NumOfMessages
    /\ clast.writeEs = UpdateRequired
    /\ clast.updated

\* the same for a stack whose write needs no update pass
C31_WitnessNoUpdate ==
    /\ cpc = "done"
    /\ clast.writeEs = Success
    /\ ~clast.updated

RECURSIVE BufferFieldsFrom(_, _, _)
\* the values of the transport fields as the bytes from offset iter hold
\* them: the field of every layer from layer i on, then the payload
BufferFieldsFrom(data, iter, i) ==
    IF i > Len(stack) THEN <<SubSeq(data, iter + 1, Len(data))>>
    ELSE LET f  == stack[i].field
             rd == FieldRead(f, f.dflt, data, iter, Len(data) - iter)
         IN <<rd.value>> \o BufferFieldsFrom(data, iter + rd.used, i + 1)

\* C32: the cached transport fields handed to the transport message are the
\* field values the final buffer holds, also when the write returned
\* UpdateRequired and the update pass patched the buffer
C32_CachedFieldsMatchBuffer ==
    \A k \in 1..Len(createInfos) :
        createInfos[k].transport[1] = BufferFieldsFrom(createInfos[k].raw, 0, 1)

\* where no update pass runs the cached fields are what the buffer holds
C32_NoUpdateFieldsMatch ==
    Created /\ ~clast.updated =>
        clast.fields = BufferFieldsFrom(clast.data, 0, 1)

----------------------------------------------------------------------------
(* GuiAppMgr: src/app/comms_champion/src/GuiAppMgr.cpp *)

\* the messages a behaviour creates
MaxMsgs == 3

\* the events a behaviour takes from the user
MaxUserEvents == 2

\* SelectionType
SelectionTypes == {"None", "Recv", "Send"}

\* RecvListMode: m_recvListMode is the set of the bits that are set
RecvListMode_ShowReceived == "ShowReceived"
RecvListMode_ShowSent == "ShowSent"
RecvListMode_ShowGarbage == "ShowGarbage"
RecvListModes ==
    {RecvListMode_ShowReceived, RecvListMode_ShowSent, RecvListMode_ShowGarbage}

\* a message object: n tells the objects apart, type is the property
\* property::message::Type ("None" for a message of the send list), id is
\* what idAsString() returns, empty for garbage
Message(n, type, id) == [n |-> n, type |-> type, id |-> id]

\* the state the handlers of GuiAppMgr work on: m the data members, u what
\* the signals told the widgets, mm the messages of MsgMgr, a whether an
\* assertion has failed, stale the messages a clear took from the receive
\* list, lastAdded the last message added to the receive list
Gui == [m |-> mgr, u |-> ui, mm |-> msgMgr, a |-> gev.asserted,
        stale |-> gev.stale, lastAdded |-> gev.lastAdded]

\* assert(cond)
Check(g, cond) == [g EXCEPT !.a = @ \/ ~cond]

\* the elements of a sequence that are not in S, in order
RECURSIVE Without(_, _)
Without(seq, S) ==
    IF seq = <<>> THEN <<>>
    ELSE (IF seq[1] \in S THEN <<>> ELSE <<seq[1]>>) \o Without(Tail(seq), S)

\* GuiAppMgr::recvListEmpty, sendListEmpty
recvListEmpty(g) == g.m.m_recvListCount = 0
sendListEmpty(g) == g.m.m_sendListCount = 0

\* GuiAppMgr::recvListShowsReceived, recvListShowsSent, recvListShowsGarbage
recvListShowsReceived(g) == RecvListMode_ShowReceived \in g.m.m_recvListMode
recvListShowsSent(g) == RecvListMode_ShowSent \in g.m.m_recvListMode
recvListShowsGarbage(g) == RecvListMode_ShowGarbage \in g.m.m_recvListMode

\* GuiAppMgr::emitRecvNotSelected, emitSendNotSelected
emitRecvNotSelected(g) == [g EXCEPT !.u.recvSelected = -1]
emitSendNotSelected(g) == [g EXCEPT !.u.sendSelected = -1]

\* GuiAppMgr::displayMessage
displayMessage(g, msg) ==
    [g EXCEPT !.m.m_pendingDisplayMsg = NoMsg, !.u.displayed = <<msg>>]

\* clearDisplayedMessage leaving m_clickedMsg alone
clearDisplayedMessage_KeepClicked(g) ==
    [g EXCEPT !.m.m_selType = "None", !.u.displayed = NoMsg]

\* GuiAppMgr::clearDisplayedMessage
clearDisplayedMessage(g) ==
    [g EXCEPT !.m.m_selType = "None", !.m.m_clickedMsg = NoMsg,
              !.u.displayed = NoMsg]

\* msgClicked selecting the message whatever was selected
msgClicked_AlwaysSelect(g, msg, selType) ==
    [displayMessage([g EXCEPT !.m.m_selType = selType,
                              !.m.m_clickedMsg = <<msg>>], msg)
     EXCEPT !.u.selectOnAdd = FALSE]

\* GuiAppMgr::msgClicked
msgClicked(g, msg, selType) ==
    IF g.m.m_clickedMsg = <<msg>>
    THEN [clearDisplayedMessage(Check(g, selType = g.m.m_selType))
          EXCEPT !.u.selectOnAdd = TRUE]
    ELSE [displayMessage([g EXCEPT !.m.m_selType = selType,
                                   !.m.m_clickedMsg = <<msg>>], msg)
          EXCEPT !.u.selectOnAdd = FALSE]

\* GuiAppMgr::recvMsgClicked
recvMsgClicked(g, msg, idx) ==
    LET g1 == msgClicked(emitSendNotSelected(g), msg, "Recv")
    IN IF g1.m.m_clickedMsg = NoMsg
       THEN emitRecvNotSelected(g1)
       ELSE [g1 EXCEPT !.u.recvSelected = idx]

\* GuiAppMgr::sendMsgClicked
sendMsgClicked(g, msg, idx) ==
    LET g1 == msgClicked(emitRecvNotSelected(g), msg, "Send")
    IN IF g1.m.m_clickedMsg = NoMsg
       THEN emitSendNotSelected(g1)
       ELSE [g1 EXCEPT !.u.sendSelected = idx]

\* GuiAppMgr::canAddToRecvList
canAddToRecvList(g, msg) ==
    IF msg.type = "Sent" THEN recvListShowsSent(g)
    ELSE IF msg.id # "" THEN recvListShowsReceived(g)
    ELSE recvListShowsGarbage(g)

\* GuiAppMgr::addMsgToRecvList
addMsgToRecvList(g, msg) ==
    [g EXCEPT !.m.m_recvListCount = @ + 1, !.u.recvList = Append(@, msg),
              !.stale = @ \ {msg}, !.lastAdded = <<msg>>]

\* GuiAppMgr::deleteMessages
deleteMessages(g, msgs) ==
    [Check(g, \A k \in 1..Len(msgs) : g.m.m_clickedMsg # <<msgs[k]>>)
     EXCEPT !.mm = Without(@, {msgs[k] : k \in 1..Len(msgs)})]

\* the receive list widget on sigRecvClear(reportDeleted): it drops its items
\* and, when asked to, reports them for deletion
sigRecvClear(g, reportDeleted) ==
    LET msgs == g.u.recvList
        g1   == [g EXCEPT !.u.recvList = <<>>,
                          !.stale = @ \cup {msgs[k] : k \in 1..Len(msgs)}]
    IN IF reportDeleted THEN deleteMessages(g1, msgs) ELSE g1

\* clearRecvList that also drops the message waiting to be displayed
clearRecvList_DropPending(g, reportDeleted) ==
    LET sendSelected == g.m.m_selType = "Send"
        g1 == [g EXCEPT !.m.m_recvListCount = 0, !.m.m_pendingDisplayMsg = NoMsg]
        g2 == IF ~sendSelected THEN clearDisplayedMessage(g1) ELSE g1
    IN sigRecvClear(g2, reportDeleted)

\* GuiAppMgr::clearRecvList
clearRecvList(g, reportDeleted) ==
    LET wasSelected  == g.m.m_selType = "Recv"
        sendSelected == g.m.m_selType = "Send"
        g1 == Check(Check(g, wasSelected => g.m.m_clickedMsg # NoMsg),
                    sendSelected => g.m.m_clickedMsg # NoMsg)
        g2 == [g1 EXCEPT !.m.m_recvListCount = 0]
        g3 == IF ~sendSelected THEN clearDisplayedMessage(g2) ELSE g2
        g4 == IF wasSelected
              THEN emitRecvNotSelected([g3 EXCEPT !.u.selectOnAdd = TRUE])
              ELSE g3
    IN sigRecvClear(g4, reportDeleted)

\* msgAdded displaying every message at once
msgAdded_NoThrottle(g, msg) ==
    IF ~canAddToRecvList(g, msg) THEN g
    ELSE displayMessage(addMsgToRecvList(g, msg), msg)

\* GuiAppMgr::msgAdded
msgAdded(g, msg) ==
    LET g1 == addMsgToRecvList(g, msg)
    IN IF ~canAddToRecvList(g, msg) THEN g
       ELSE IF g1.m.m_clickedMsg # NoMsg THEN g1
       ELSE IF g1.m.m_pendingDisplayWaitInProgress
            THEN [g1 EXCEPT !.m.m_pendingDisplayMsg = <<msg>>]
       ELSE [displayMessage(g1, msg)
             EXCEPT !.m.m_pendingDisplayWaitInProgress = TRUE,
                    !.u.timer = TRUE]

\* GuiAppMgr::pendingDisplayTimeout
pendingDisplayTimeout(g) ==
    LET g1 == [g EXCEPT !.m.m_pendingDisplayWaitInProgress = FALSE,
                        !.u.timer = FALSE]
    IN IF g1.m.m_pendingDisplayMsg # NoMsg
       THEN displayMessage(g1, g1.m.m_pendingDisplayMsg[1])
       ELSE g1

RECURSIVE RefreshFrom(_, _, _)
\* the loop of refreshRecvList over getAllMsgs() from the k-th message on
RefreshFrom(g, clickedMsg, k) ==
    IF k > Len(g.mm) THEN g
    ELSE LET msg == g.mm[k]
             g1  == addMsgToRecvList(g, msg)
             g2  == IF <<msg>> = clickedMsg
                    THEN recvMsgClicked(Check(g1, 0 < g1.m.m_recvListCount), msg,
                                        g1.m.m_recvListCount - 1)
                    ELSE g1
         IN IF canAddToRecvList(g, msg)
            THEN RefreshFrom(g2, clickedMsg, k + 1)
            ELSE RefreshFrom(g, clickedMsg, k + 1)

\* GuiAppMgr::refreshRecvList
refreshRecvList(g) ==
    LET clickedMsg == g.m.m_clickedMsg
        g1 == IF g.m.m_selType = "Recv"
              THEN LET c  == Check(Check(g, g.m.m_clickedMsg # NoMsg),
                                   0 < g.m.m_recvListCount)
                       g0 == recvMsgClicked(c, c.m.m_clickedMsg[1],
                                            c.m.m_recvListCount - 1)
                   IN Check(g0, g0.m.m_clickedMsg = NoMsg)
              ELSE IF g.m.m_selType # "Send"
              THEN [g EXCEPT !.u.displayed = NoMsg]
              ELSE g
        g2 == RefreshFrom(clearRecvList(g1, FALSE), clickedMsg, 1)
    IN g2

\* updateRecvListMode without the refresh of the list
updateRecvListMode_NoRefresh(g, mode, checked) ==
    [g EXCEPT !.m.m_recvListMode = IF checked THEN @ \cup {mode} ELSE @ \ {mode}]

\* GuiAppMgr::updateRecvListMode
updateRecvListMode(g, mode, checked) ==
    refreshRecvList(
        [g EXCEPT !.m.m_recvListMode =
                     IF checked THEN @ \cup {mode} ELSE @ \ {mode}])

\* GuiAppMgr::decRecvListCount, decSendListCount
decRecvListCount(g) ==
    LET g1 == [g EXCEPT !.m.m_recvListCount = @ - 1]
    IN IF recvListEmpty(g1) THEN emitRecvNotSelected(g1) ELSE g1
decSendListCount(g) ==
    LET g1 == [g EXCEPT !.m.m_sendListCount = @ - 1]
    IN IF sendListEmpty(g1) THEN emitSendNotSelected(g1) ELSE g1

\* GuiAppMgr::recvDeleteClicked; on sigRecvDeleteSelectedMsg the widget drops
\* the item of the selected message
recvDeleteClicked(g) ==
    LET c   == Check(Check(Check(g, ~recvListEmpty(g)), g.m.m_selType = "Recv"),
                     g.m.m_clickedMsg # NoMsg)
        sel == {c.m.m_clickedMsg[k] : k \in 1..Len(c.m.m_clickedMsg)}
        g1  == clearDisplayedMessage([c EXCEPT !.mm = Without(@, sel)])
    IN decRecvListCount([g1 EXCEPT !.u.recvList = Without(@, sel)])

\* GuiAppMgr::sendDeleteClicked; on sigSendDeleteSelectedMsg the widget drops
\* the item of the selected message
sendDeleteClicked(g) ==
    LET c   == Check(Check(Check(g, ~sendListEmpty(g)), g.m.m_selType = "Send"),
                     g.m.m_clickedMsg # NoMsg)
        sel == {c.m.m_clickedMsg[k] : k \in 1..Len(c.m.m_clickedMsg)}
        g1  == clearDisplayedMessage(c)
    IN decSendListCount([g1 EXCEPT !.u.sendList = Without(@, sel)])

\* GuiAppMgr::sendClearClicked; on sigSendClear the widget drops its items
sendClearClicked(g) ==
    LET wasSelected == g.m.m_selType = "Send"
        c  == Check(Check([g EXCEPT !.u.sendList = <<>>], 0 < g.m.m_sendListCount),
                    wasSelected => g.m.m_clickedMsg # NoMsg)
        g1 == [c EXCEPT !.m.m_sendListCount = 0]
    IN IF wasSelected THEN emitSendNotSelected(clearDisplayedMessage(g1)) ELSE g1

\* GuiAppMgr::sendAddNewMessage; on sigAddSendMsg the widget adds the item
sendAddNewMessage(g, msg) ==
    LET g1 == [g EXCEPT !.m.m_sendListCount = @ + 1, !.u.sendList = Append(@, msg)]
        g2 == sendMsgClicked(g1, msg, g1.m.m_sendListCount - 1)
    IN Check(Check(g2, g2.m.m_selType = "Send"), g2.m.m_clickedMsg # NoMsg)

\* GuiAppMgr::sendUpdateMessage; on sigSendMsgUpdated the widget puts msg in
\* the place of the selected item
sendUpdateMessage(g, msg) ==
    LET c == Check(Check(g, ~sendListEmpty(g)), g.m.m_clickedMsg # NoMsg)
        old == c.m.m_clickedMsg
    IN displayMessage(
           [c EXCEPT !.m.m_clickedMsg = <<msg>>,
                     !.u.sendList = [k \in 1..Len(@) |->
                                        IF <<@[k]>> = old THEN msg ELSE @[k]]],
           msg)

\* the index of the first element of msgs that is what ptr points to,
\* counted from 0; Len(msgs) if there is none
RECURSIVE IndexOf(_, _)
IndexOf(msgs, ptr) ==
    IF msgs = <<>> \/ <<msgs[1]>> = ptr THEN 0
    ELSE 1 + IndexOf(Tail(msgs), ptr)

\* GuiAppMgr::sendUpdateList, called by the widget of the send list with the
\* items it holds
sendUpdateList(g, msgs) ==
    LET sel        == g.m.m_selType = "Send"
        clickedMsg == IF sel THEN g.m.m_clickedMsg ELSE NoMsg
        c          == Check(Check(g, g.m.m_clickedMsg # NoMsg),
                            0 < g.m.m_sendListCount)
        g0         == sendMsgClicked(c, c.m.m_clickedMsg[1], -1)
        g1         == IF sel THEN Check(g0, g0.m.m_clickedMsg = NoMsg) ELSE g
        clickedIdx == IndexOf(msgs, clickedMsg)
        g2         == [g1 EXCEPT !.m.m_sendListCount = Len(msgs),
                                 !.u.sendList = msgs]
    IN IF clickedMsg # NoMsg /\ clickedIdx < Len(msgs)
       THEN sendMsgClicked(g2, clickedMsg[1], clickedIdx)
       ELSE g2

RECURSIVE AddMsgs(_, _)
\* MsgMgr::addMsgs: every message is kept and reported with msgAdded
AddMsgs(g, msgs) ==
    IF msgs = <<>> THEN g
    ELSE AddMsgs(msgAdded([g EXCEPT !.mm = Append(@, msgs[1])], msgs[1]),
                 Tail(msgs))

\* GuiAppMgr::recvLoadMsgsFromFile, msgs being what MsgFileMgr::load returns
recvLoadMsgsFromFile(g, clear, msgs) ==
    AddMsgs(IF clear THEN [clearRecvList(g, FALSE) EXCEPT !.mm = <<>>] ELSE g,
            msgs)

----------------------------------------------------------------------------
(* The state machine of GuiAppMgr *)

\* GuiAppMgr as constructed, any of the show modes set, with empty lists and
\* an empty MsgMgr
GuiInit ==
    /\ StackIdle
    /\ FieldIdle
    /\ IfaceIdle
    /\ ProtIdle
    /\ CreateIdle
    /\ \E mode \in SUBSET RecvListModes :
          mgr = [m_selType |-> "None", m_clickedMsg |-> NoMsg,
                 m_recvListCount |-> 0, m_sendListCount |-> 0,
                 m_recvListMode |-> mode,
                 m_pendingDisplayWaitInProgress |-> FALSE,
                 m_pendingDisplayMsg |-> NoMsg]
    /\ msgMgr = <<>>
    /\ ui = [recvList |-> <<>>, sendList |-> <<>>, displayed |-> NoMsg,
             selectOnAdd |-> TRUE, recvSelected |-> -1, sendSelected |-> -1,
             timer |-> FALSE]
    /\ gev = [op |-> "init", msg |-> NoMsg, idx |-> -1,
              before |-> [m_clickedMsg |-> NoMsg,
                          m_pendingDisplayWaitInProgress |-> FALSE],
              n |-> 0, user |-> 0, asserted |-> FALSE, stale |-> {},
              lastAdded |-> NoMsg]

\* what an event leaves behind: g is the state its handler ended in, msg and
\* idx are its arguments, created tells whether it brought a new message,
\* user whether it came from the user
Done(name, g, msg, idx, created, user) ==
    /\ user => gev.user < MaxUserEvents
    /\ mgr' = g.m
    /\ ui' = g.u
    /\ msgMgr' = g.mm
    /\ gev' = [op |-> name, msg |-> msg, idx |-> idx,
               before |-> [m_clickedMsg |-> mgr.m_clickedMsg,
                           m_pendingDisplayWaitInProgress |->
                               mgr.m_pendingDisplayWaitInProgress],
               n |-> gev.n + (IF created THEN 1 ELSE 0),
               user |-> gev.user + (IF user THEN 1 ELSE 0), asserted |-> g.a,
               stale |-> g.stale, lastAdded |-> g.lastAdded]
    /\ UNCHANGED <<stackVars, fieldVars, ifaceVars, protVars, createVars>>

\* MsgMgr has received or sent a message: it keeps it and calls the callback
\* set with setMsgAddedCallbackFunc, msgAdded(msg)
MsgAdded(type, id) ==
    /\ gev.n < MaxMsgs
    /\ LET msg == Message(gev.n + 1, type, id)
       IN Done("msgAdded", msgAdded([Gui EXCEPT !.mm = Append(@, msg)], msg),
               <<msg>>, -1, TRUE, FALSE)

\* m_pendingDisplayTimer fires
PendingDisplayTimeout ==
    /\ ui.timer
    /\ Done("pendingDisplayTimeout", pendingDisplayTimeout(Gui), NoMsg, -1,
            FALSE, FALSE)

\* the user clicks the k-th item of the receive list
RecvMsgClicked(k) ==
    /\ k \in 1..Len(ui.recvList)
    /\ Done("recvMsgClicked", recvMsgClicked(Gui, ui.recvList[k], k - 1),
            <<ui.recvList[k]>>, k - 1, FALSE, TRUE)

\* the user clicks the k-th item of the send list
SendMsgClicked(k) ==
    /\ k \in 1..Len(ui.sendList)
    /\ Done("sendMsgClicked", sendMsgClicked(Gui, ui.sendList[k], k - 1),
            <<ui.sendList[k]>>, k - 1, FALSE, TRUE)

\* the delete button of the receive list, offered while one of its messages
\* is selected
RecvDeleteClicked ==
    /\ mgr.m_selType = "Recv"
    /\ mgr.m_recvListCount > 0
    /\ Done("recvDeleteClicked", recvDeleteClicked(Gui), NoMsg, -1, FALSE, TRUE)

\* the clear button of the receive list
RecvClearClicked ==
    /\ mgr.m_recvListCount > 0
    /\ Done("recvClearClicked", clearRecvList(Gui, TRUE), NoMsg, -1, FALSE, TRUE)

\* the three check boxes of the receive list
RecvShowRecvToggled(checked) ==
    Done("recvShowRecvToggled",
         updateRecvListMode(Gui, RecvListMode_ShowReceived, checked),
         NoMsg, -1, FALSE, TRUE)

RecvShowSentToggled(checked) ==
    Done("recvShowSentToggled",
         updateRecvListMode(Gui, RecvListMode_ShowSent, checked),
         NoMsg, -1, FALSE, TRUE)

RecvShowGarbageToggled(checked) ==
    Done("recvShowGarbageToggled",
         updateRecvListMode(Gui, RecvListMode_ShowGarbage, checked),
         NoMsg, -1, FALSE, TRUE)

\* the dialog for a new message to send has been accepted
SendAddNewMessage ==
    /\ gev.n < MaxMsgs
    /\ LET msg == Message(gev.n + 1, "None", "x")
       IN Done("sendAddNewMessage", sendAddNewMessage(Gui, msg), <<msg>>, -1,
               TRUE, TRUE)

\* the delete button of the send list, offered while one of its messages is
\* selected
SendDeleteClicked ==
    /\ mgr.m_selType = "Send"
    /\ mgr.m_sendListCount > 0
    /\ Done("sendDeleteClicked", sendDeleteClicked(Gui), NoMsg, -1, FALSE, TRUE)

\* the clear button of the send list
SendClearClicked ==
    /\ mgr.m_sendListCount > 0
    /\ Done("sendClearClicked", sendClearClicked(Gui), NoMsg, -1, FALSE, TRUE)

\* the dialog that edits the selected message of the send list has been
\* accepted: msg takes its place
SendUpdateMessage ==
    /\ mgr.m_selType = "Send"
    /\ mgr.m_sendListCount > 0
    /\ gev.n < MaxMsgs
    /\ LET msg == Message(gev.n + 1, "None", "x")
       IN Done("sendUpdateMessage", sendUpdateMessage(Gui, msg), <<msg>>, -1,
               TRUE, TRUE)

\* the send list reports its items after the user has moved the first one
\* to the bottom, or after it has dropped the first one
SendUpdateList(moved) ==
    /\ ui.sendList # <<>>
    /\ LET msgs == IF moved THEN Tail(ui.sendList) \o <<ui.sendList[1]>>
                   ELSE Tail(ui.sendList)
       IN Done("sendUpdateList", sendUpdateList(Gui, msgs), NoMsg, -1, FALSE,
               TRUE)

\* the user loads a file of received messages that holds one message, or
\* none
RecvLoadMsgsFromFile(clear, some) ==
    /\ some => gev.n < MaxMsgs
    /\ LET msg  == Message(gev.n + 1, "Received", "x")
           msgs == IF some THEN <<msg>> ELSE <<>>
       IN Done("recvLoadMsgsFromFile", recvLoadMsgsFromFile(Gui, clear, msgs),
               IF some THEN <<msg>> ELSE NoMsg, -1, some, TRUE)

GuiNext ==
    \/ \E type \in {"Received", "Sent"}, id \in {"", "x"} :
          (type = "Sent" => id = "x") /\ MsgAdded(type, id)
    \/ PendingDisplayTimeout
    \/ \E k \in 1..MaxMsgs : RecvMsgClicked(k)
    \/ \E k \in 1..MaxMsgs : SendMsgClicked(k)
    \/ RecvDeleteClicked
    \/ RecvClearClicked
    \/ \E checked \in BOOLEAN : RecvShowRecvToggled(checked)
    \/ \E checked \in BOOLEAN : RecvShowSentToggled(checked)
    \/ \E checked \in BOOLEAN : RecvShowGarbageToggled(checked)
    \/ SendAddNewMessage
    \/ SendDeleteClicked
    \/ SendClearClicked
    \/ SendUpdateMessage
    \/ \E moved \in BOOLEAN : SendUpdateList(moved)
    \/ \E clear \in BOOLEAN, some \in BOOLEAN : RecvLoadMsgsFromFile(clear, some)

SpecGui == GuiInit /\ [][GuiNext]_vars

\* an assertion of GuiAppMgr never fails
GuiNoAssert == ~gev.asserted

----------------------------------------------------------------------------
(* Claims about GuiAppMgr *)

\* C33: in every reachable state of GuiAppMgr m_selType is None exactly when
\* m_clickedMsg is null, so the assertions on m_clickedMsg in
\* recvDeleteClicked, sendDeleteClicked, sendClearClicked and clearRecvList
\* hold whenever a message of the receive or of the send list is selected
C33_SelTypeIffClicked ==
    /\ (mgr.m_selType = "None") <=> (mgr.m_clickedMsg = NoMsg)
    /\ ~gev.asserted

\* a handler with assertions on m_clickedMsg has run on a selection
C33_Witness ==
    /\ gev.op \in {"recvDeleteClicked", "sendDeleteClicked", "sendClearClicked",
                   "recvClearClicked"}
    /\ gev.before.m_clickedMsg # NoMsg
    /\ mgr.m_selType = "None"
    /\ mgr.m_clickedMsg = NoMsg

\* the last event was a click on a message of the receive or the send list
Clicked == gev.op \in {"recvMsgClicked", "sendMsgClicked"}

\* the list the clicked message is in
ClickedList == IF gev.op = "recvMsgClicked" THEN "Recv" ELSE "Send"

\* C34: a click on the selected message clears the selection (selection type
\* None, display cleared, select on add of the receive list enabled again);
\* a click on any other message makes it the one selection, of the type of
\* the list clicked, displays it and disables select on add, and the other
\* list is told that it has no selection (index -1)
C34_ClickSelectsOrClears ==
    Clicked =>
        IF gev.before.m_clickedMsg = gev.msg
        THEN /\ mgr.m_selType = "None"
             /\ mgr.m_clickedMsg = NoMsg
             /\ ui.displayed = NoMsg
             /\ ui.selectOnAdd
        ELSE /\ mgr.m_selType = ClickedList
             /\ mgr.m_clickedMsg = gev.msg
             /\ ui.displayed = gev.msg
             /\ ~ui.selectOnAdd
             /\ IF ClickedList = "Recv"
                THEN ui.sendSelected = -1 /\ ui.recvSelected = gev.idx
                ELSE ui.recvSelected = -1 /\ ui.sendSelected = gev.idx

\* a click on the selected message
C34_Witness ==
    /\ Clicked
    /\ gev.before.m_clickedMsg = gev.msg
    /\ mgr.m_selType = "None"

\* a click on a message of the receive list while one of the send list was
\* selected
C34_WitnessOtherList ==
    /\ gev.op = "recvMsgClicked"
    /\ gev.before.m_clickedMsg # NoMsg
    /\ gev.before.m_clickedMsg[1].type = "None"
    /\ mgr.m_selType = "Recv"

\* the last event was msgAdded and the message went to the receive list
Added == gev.op = "msgAdded" /\ gev.lastAdded = gev.msg

\* no event has come from the user
Quiet == gev.user = 0

C36_NoStaleDisplay ==
    ui.displayed = NoMsg \/ ui.displayed[1] \notin gev.stale

\* the messages of MsgMgr that pass the filter of the receive list
Passing ==
    {k \in 1..Len(msgMgr) :
        \/ msgMgr[k].type = "Sent"
              /\ RecvListMode_ShowSent \in mgr.m_recvListMode
        \/ msgMgr[k].type = "Received" /\ msgMgr[k].id # ""
              /\ RecvListMode_ShowReceived \in mgr.m_recvListMode
        \/ msgMgr[k].type = "Received" /\ msgMgr[k].id = ""
              /\ RecvListMode_ShowGarbage \in mgr.m_recvListMode}

\* the last event was one of the three show toggles
Toggled ==
    gev.op \in {"recvShowRecvToggled", "recvShowSentToggled",
                "recvShowGarbageToggled"}

\* C37: after any of the three show toggles the count of the receive list is
\* the number of messages of the message manager that pass the filter: sent
\* messages iff ShowSent, received messages with an id iff ShowReceived,
\* received messages without one (garbage) iff ShowGarbage
C37_CountMatchesFilter ==
    Toggled =>
        /\ mgr.m_recvListCount = Cardinality(Passing)
        /\ Len(ui.recvList) = Cardinality(Passing)

\* a toggle that left some messages in the list and some out of it
C37_Witness ==
    /\ Toggled
    /\ mgr.m_recvListCount > 0
    /\ mgr.m_recvListCount < Len(msgMgr)

====
